---- MODULE Spec2Model ----
(***************************************************************************)
(* Source routing, validation and deduplication engine of the job search   *)
(* agent: src/src/core/intelligent_source_router.py and                    *)
(* src/src/core/quality_assurance.py.                                      *)
(*                                                                         *)
(* Conventions.                                                            *)
(*  - An Optional value is a sequence of length 0 (None) or 1.             *)
(*  - A Python dict read with d.get(k) is a record of Optional values: a   *)
(*    missing key and a key holding None both read as None, which is falsy.*)
(*  - A ratio a/b is kept as the pair of its integer numerator and         *)
(*    denominator and compared by cross multiplication.                    *)
(*  - The time stamps of time.time() are left out of the window entries:   *)
(*    they are stored (last_used) and never read by any decision.          *)
(***************************************************************************)
EXTENDS Integers, Sequences, FiniteSets, TLC

VARIABLES
    performance_history,  \* PerformanceTracker.performance_history: id -> window
    source_metrics,       \* PerformanceTracker.source_metrics: id -> Optional record
    parsed_data,          \* Optional: the argument of the last classify/select call
    max_sources,          \* the max_sources argument of the last select_sources call
    query_type,           \* Optional: the query type the last call computed
    selected,             \* Optional: the list the last select_sources call returned
    raised,               \* the exception the last call raised, "none" if it returned
    last_call,            \* the operation called last
    handed_jobs,          \* the list handed to the last deduplicate_jobs call
    deduplication,        \* Optional: the DeduplicationResult the last call returned
    deduplication_stats,  \* JobDeduplicator.deduplication_stats
    previous_deduplication, \* Optional: the DeduplicationResult of the call before
    handed_job,           \* Optional: the listing handed to the last validate_job call
    level_of_validator,   \* JobValidator.validation_level
    validation,           \* Optional: the ValidationResult the last call returned
    previous_validation,  \* Optional: the ValidationResult of the call before
    filled_field,         \* Optional: the field filled in before the last call
    qa_level,             \* QualityAssuranceLayer.validator.validation_level
    qa_jobs,              \* the list handed to the last process_jobs call
    qa_validated,         \* the listings the last call's validation let through
    qa_deduplication,     \* Optional: the DeduplicationResult of the last call
    qa_enriched,          \* Optional: the list the last process_jobs call returned
    qa_stats,             \* QualityAssuranceLayer.qa_stats
    qa_deduplication_stats, \* the deduplication_stats of the layer's deduplicator
    qa_runs,              \* the process_jobs calls made on the layer
    search_pc,            \* where AdvancedWebSearchEngine.search stands
    num_results,          \* the num_results argument of search
    future_to_engine,     \* the futures of the parallel wave, in submission order
    yielded,              \* the futures as_completed has handed to the loop
    all_results,          \* all_results of search
    successful_engines,   \* successful_engines of search
    remaining_engines,    \* the engines the fallback has yet to try
    fallback_engines,     \* the engines the fallback has called
    search_result,        \* Optional: the list search returned
    failure_counts,       \* RateLimiter.failure_counts, 0 for an engine without a key
    thread_call,          \* the record_request call every thread makes
    thread_pc,            \* where every thread stands in its call
    thread_raised,        \* the exception every thread's call ended with
    lock,                 \* Optional: the thread holding PerformanceTracker.lock
    request_times,        \* RateLimiter.request_times, 0 for an engine without a key
    current_time,         \* time.time(), in half seconds
    wait_time,            \* Optional: the wait before the last request, in half seconds
    limiter_engine,       \* Optional: the engine of the last request
    limiter_requests      \* the requests made through the rate limiter

routerVars == <<performance_history, source_metrics, parsed_data, max_sources,
                query_type, selected>>

deduplicatorVars == <<handed_jobs, deduplication, deduplication_stats,
                      previous_deduplication>>

validatorVars == <<handed_job, level_of_validator, validation, previous_validation,
                   filled_field>>

qaVars == <<qa_level, qa_jobs, qa_validated, qa_deduplication, qa_enriched, qa_stats,
            qa_deduplication_stats, qa_runs>>

\* The variables of the components other than the router, the deduplicator and
\* the validator.
searchVars == <<search_pc, num_results, future_to_engine, yielded, all_results,
                successful_engines, remaining_engines, fallback_engines, search_result,
                failure_counts>>

threadVars == <<thread_call, thread_pc, thread_raised, lock>>

\* The variables of a rate limiter followed by the clock.
limiterVars == <<request_times, current_time, wait_time, limiter_engine,
                 limiter_requests>>

laterVars == <<qaVars, searchVars, threadVars, limiterVars>>

(***************************************************************************)
(* Bounds of the model.                                                    *)
(***************************************************************************)
\* Outcomes reported to the router in one run, over all sources together.
MaxRequests == 5
\* Outcomes recorded on a tracker of its own in one run, over all sources together.
MaxTrackerRequests == 6
\* The max_sources arguments tried are -1..MaxSourcesArg and the default.
MaxSourcesArg == 2
\* The longest list handed to deduplicate_jobs.
MaxJobs == 3
\* The most required fields a listing handed to validate_job is without.
MaxAbsentFields == 2

\* The listings of a list handed to process_jobs, and the calls of it on one layer.
MaxQaJobs == 2
MaxQaRuns == 2

\* The threads calling record_request at the same time.
MaxThreads == 2

\* The requests made through one rate limiter, and the clock, in half seconds,
\* when the limiter is made.
MaxLimiterRequests == 6
StartTime == 200

(***************************************************************************)
(* Generic helpers.                                                        *)
(***************************************************************************)
None == <<>>
Some(x) == <<x>>

Min(a, b) == IF a <= b THEN a ELSE b
Max(a, b) == IF a >= b THEN a ELSE b

Range(s) == {s[i] : i \in 1..Len(s)}

\* F(x), with x evaluated once.
Bind(x, F(_)) == CHOOSE r \in {F(v) : v \in {x}} : TRUE

\* What a call that can raise gives: the exception raised ("none" when it
\* returned) and the value returned.
Returned(v) == [raised |-> "none", value |-> Some(v)]
Raised(e) == [raised |-> e, value |-> None]

\* The list s reordered by rank: the entry of rank k - 1 comes k-th.
PlaceByRank(s, rank) ==
    [k \in 1..Len(s) |-> s[CHOOSE i \in 1..Len(s) : rank[i] = k - 1]]

\* Python's sorted(): stable, elements that compare equal keep their order. The
\* entry at position i goes behind the entries that are Before it and behind the
\* earlier entries it is not Before.
SortedStable(s, Before(_, _)) ==
    PlaceByRank(s, [i \in 1..Len(s) |-> Cardinality({j \in 1..Len(s) :
                        \/ Before(s[j], s[i])
                        \/ (~Before(s[i], s[j]) /\ j < i)})])

\* The sum of the response times of a window's entries.
RECURSIVE SumResponseTime(_)
SumResponseTime(w) ==
    IF w = <<>> THEN 0 ELSE Head(w).response_time + SumResponseTime(Tail(w))

\* The sum of the jobs found of a window's entries.
RECURSIVE SumJobsFound(_)
SumJobsFound(w) ==
    IF w = <<>> THEN 0 ELSE Head(w).jobs_found + SumJobsFound(Tail(w))

\* The 0-based position of x in s, or Len(s) when x is not in s.
IndexOf(s, x) ==
    IF \E i \in 1..Len(s) : s[i] = x
    THEN (CHOOSE i \in 1..Len(s) : s[i] = x /\ \A j \in 1..(i - 1) : s[j] # x) - 1
    ELSE Len(s)

(***************************************************************************)
(* Text. A str is the sequence of its characters, each a one-character     *)
(* string. The texts of the model are ASCII and hold no whitespace other   *)
(* than the space, so that "." and "$" of a regular expression see no line *)
(* break.                                                                  *)
(***************************************************************************)
UpperLetters ==
    <<"A", "B", "C", "D", "E", "F", "G", "H", "I", "J", "K", "L", "M",
      "N", "O", "P", "Q", "R", "S", "T", "U", "V", "W", "X", "Y", "Z">>

LowerLetters ==
    <<"a", "b", "c", "d", "e", "f", "g", "h", "i", "j", "k", "l", "m",
      "n", "o", "p", "q", "r", "s", "t", "u", "v", "w", "x", "y", "z">>

Digits == {"0", "1", "2", "3", "4", "5", "6", "7", "8", "9"}

\* \s of a regular expression, str.isspace.
IsSpace(c) == c = " "

\* \w of a regular expression.
IsWordChar(c) ==
    c \in Range(UpperLetters) \cup Range(LowerLetters) \cup Digits \cup {"_"}

LowerChar(c) ==
    IF c \in Range(UpperLetters)
    THEN LowerLetters[CHOOSE i \in 1..26 : UpperLetters[i] = c]
    ELSE c

\* str.lower().
Lower(s) == [i \in 1..Len(s) |-> LowerChar(s[i])]

\* The characters of s at the positions in keep, in their order.
Pick(s, keep) ==
    LET taken(places) == [k \in 1..Len(places) |-> s[places[k]]]
    IN  Bind(SelectSeq([i \in 1..Len(s) |-> i], LAMBDA i : i \in keep), taken)

\* str.strip().
Strip(s) ==
    LET inked == {i \in 1..Len(s) : ~IsSpace(s[i])}
    IN  IF inked = {} THEN <<>>
        ELSE SubSeq(s, CHOOSE i \in inked : \A j \in inked : i <= j,
                       CHOOSE i \in inked : \A j \in inked : i >= j)

\* re.sub(r'\s+', ' ', s): one space for every run of whitespace.
CollapseWhitespace(s) ==
    Pick(s, {i \in 1..Len(s) : ~IsSpace(s[i]) \/ i = 1 \/ ~IsSpace(s[i - 1])})

\* s[p:].startswith(pattern), p counted from 1.
StartsWithAt(s, p, pattern) ==
    /\ p >= 1
    /\ p + Len(pattern) - 1 <= Len(s)
    /\ \A k \in 1..Len(pattern) : s[p + k - 1] = pattern[k]

\* pattern in s.
Contains(s, pattern) == \E p \in 1..(Len(s) + 1) : StartsWithAt(s, p, pattern)

\* \b of a regular expression between the characters p - 1 and p of s.
WordBoundary(s, p) ==
    LET before == p >= 2 /\ p - 1 <= Len(s) /\ IsWordChar(s[p - 1])
        after == p >= 1 /\ p <= Len(s) /\ IsWordChar(s[p])
    IN  before # after

\* re.search(r'\b(w1|w2|...)\b', s) for the set words of alternatives: whether a
\* match exists does not depend on the order of the alternatives.
SearchWords(s, words) ==
    \E w \in words, p \in 1..(Len(s) + 1) :
        /\ StartsWithAt(s, p, w)
        /\ WordBoundary(s, p)
        /\ WordBoundary(s, p + Len(w))

\* The number of words of str.split().
SplitCount(s) ==
    Cardinality({i \in 1..Len(s) :
                    ~IsSpace(s[i]) /\ (i = 1 \/ IsSpace(s[i - 1]))})

\* s.split(sep)[0]: s up to the first occurrence of sep.
SplitFirst(s, sep) ==
    IF Contains(s, sep)
    THEN SubSeq(s, 1, (CHOOSE p \in 1..Len(s) :
                          /\ StartsWithAt(s, p, sep)
                          /\ \A q \in 1..(p - 1) : ~StartsWithAt(s, q, sep)) - 1)
    ELSE s

\* re.sub(pattern, '', s) for a pattern without operators: every occurrence of
\* pattern leaves s, the leftmost first, none overlapping another.
RECURSIVE RemoveAll(_, _)
RemoveAll(s, pattern) ==
    IF ~Contains(s, pattern) THEN s
    ELSE LET p == CHOOSE q \in 1..Len(s) :
                      /\ StartsWithAt(s, q, pattern)
                      /\ \A r \in 1..(q - 1) : ~StartsWithAt(s, r, pattern)
         IN  SubSeq(s, 1, p - 1)
             \o RemoveAll(SubSeq(s, p + Len(pattern), Len(s)), pattern)

\* sep.join(filter(None, parts)).
RECURSIVE JoinNonEmpty(_, _)
JoinNonEmpty(parts, sep) ==
    IF parts = <<>> THEN <<>>
    ELSE LET rest == JoinNonEmpty(Tail(parts), sep)
         IN  IF Head(parts) = <<>> THEN rest
             ELSE IF rest = <<>> THEN Head(parts)
             ELSE Head(parts) \o sep \o rest

(***************************************************************************)
(* Job listings. A listing is a dict of texts: a record of Optional texts, *)
(* None for a key the dict does not hold.                                  *)
(***************************************************************************)
ListingFields ==
    {"title", "company", "location", "summary", "url", "salary", "requirements",
     "source"}

\* job.get(field, '').
GetText(job, field) == IF job[field] = None THEN <<>> ELSE job[field][1]

\* The truth value of job.get(field).
HasText(job, field) == GetText(job, field) # <<>>

(***************************************************************************)
(* difflib.SequenceMatcher(None, a, b).ratio() for texts of fewer than 200 *)
(* characters (no character is junk or popular).                           *)
(***************************************************************************)
\* The length of the longest common run of a from i and b from j.
RECURSIVE CommonRun(_, _, _, _)
CommonRun(a, b, i, j) ==
    IF i > Len(a) \/ j > Len(b) THEN 0
    ELSE IF a[i] # b[j] THEN 0
    ELSE 1 + CommonRun(a, b, i + 1, j + 1)

\* The largest entry of the table run of common runs.
MaxRun(run) ==
    LET sizes == {run[i][j] : i \in DOMAIN run, j \in DOMAIN run[1]}
    IN  CHOOSE k \in sizes : \A h \in sizes : h <= k

\* The first place of the table run that holds size: the earliest in a, and of
\* those the earliest in b.
FirstPlace(run, size) ==
    LET inRow(i) ==
            [i |-> i, size |-> size,
             j |-> CHOOSE y \in DOMAIN run[i] :
                      /\ run[i][y] = size
                      /\ \A h \in 1..(y - 1) : run[i][h] # size]
    IN  Bind(CHOOSE x \in DOMAIN run :
                 /\ \E j \in DOMAIN run[x] : run[x][j] = size
                 /\ \A h \in 1..(x - 1) : \A j \in DOMAIN run[h] : run[h][j] # size,
             inRow)

\* find_longest_match over all of two non-empty texts a and b: the longest
\* matching block; of the longest ones the one that starts earliest in a, and of
\* those the one that starts earliest in b. size is 0 when no character matches.
FindLongestMatch(a, b) ==
    LET found(run) ==
            LET placed(size) == FirstPlace(run, size)
            IN  Bind(MaxRun(run), placed)
    IN  Bind([i \in 1..Len(a) |-> [j \in 1..Len(b) |-> CommonRun(a, b, i, j)]],
             found)

\* The sum of the sizes of get_matching_blocks: the longest match, then the
\* same to its left and to its right.
RECURSIVE MatchingCharacters(_, _)
MatchingCharacters(a, b) ==
    IF a = <<>> \/ b = <<>> THEN 0
    ELSE LET around(m) ==
                 IF m.size = 0 THEN 0
                 ELSE m.size
                      + MatchingCharacters(SubSeq(a, 1, m.i - 1),
                                           SubSeq(b, 1, m.j - 1))
                      + MatchingCharacters(SubSeq(a, m.i + m.size, Len(a)),
                                           SubSeq(b, m.j + m.size, Len(b)))
         IN  Bind(FindLongestMatch(a, b), around)

\* ratio(): 2.0 * matches / (len(a) + len(b)) as the pair <<numerator,
\* denominator>>, and 1.0 for two empty texts.
Ratio(a, b) ==
    IF Len(a) + Len(b) = 0 THEN <<1, 1>>
    ELSE <<2 * MatchingCharacters(a, b), Len(a) + Len(b)>>

(***************************************************************************)
(* JobDeduplicator.                                                        *)
(***************************************************************************)
\* JobDeduplicator.__init__(similarity_threshold=0.8), in tenths.
similarity_threshold == 8

TextFor == <<"f", "o", "r">>
TextJobId == <<"j", "o", "b", " ", "i", "d">>
TextJobDashId == <<"j", "o", "b", "-", "i", "d">>
TextDotCom == <<".", "c", "o", "m">>
TextBdjobsDotCom == <<"b", "d", "j", "o", "b", "s", ".", "c", "o", "m">>

\* Whether r'\s*-\s*(for|job id|job-id).*$' matches s from p on: whitespace, a
\* dash, whitespace, a keyword, and then the rest of s.
BoardSuffixAt(s, p) ==
    \E d \in p..Len(s) :
        /\ \A i \in p..(d - 1) : IsSpace(s[i])
        /\ s[d] = "-"
        /\ \E e \in (d + 1)..Len(s) :
              /\ \A i \in (d + 1)..(e - 1) : IsSpace(s[i])
              /\ \E w \in {TextFor, TextJobId, TextJobDashId} : StartsWithAt(s, e, w)

\* re.sub(r'\s*-\s*(for|job id|job-id).*$', '', s) on a lower-case s: s up to
\* the leftmost match.
RemoveBoardSuffix(s) ==
    IF \E p \in 1..Len(s) : BoardSuffixAt(s, p)
    THEN SubSeq(s, 1, (CHOOSE p \in 1..Len(s) :
                          /\ BoardSuffixAt(s, p)
                          /\ \A q \in 1..(p - 1) : ~BoardSuffixAt(s, q)) - 1)
    ELSE s

\* The position of the last character of the match of r'\s*\(for\s+.*?\)' that
\* starts at p, 0 when none does: whitespace, "(for", whitespace (some), and the
\* text up to the first ")" behind it.
ForParenthesisEnd(s, p) ==
    LET opens(o) ==
            /\ s[o] = "("
            /\ \A i \in p..(o - 1) : IsSpace(s[i])
            /\ StartsWithAt(s, o, <<"(">> \o TextFor)
            /\ o + 4 <= Len(s) /\ IsSpace(s[o + 4])
        closes(c) == s[c] = ")" /\ \E o \in p..(c - 5) : opens(o)
    IN  IF \E c \in p..Len(s) : closes(c)
        THEN CHOOSE c \in p..Len(s) :
                 closes(c) /\ \A x \in p..(c - 1) : s[x] # ")" \/ ~closes(x)
        ELSE 0

\* re.sub(r'\s*\(for\s+.*?\)', '', s) on a lower-case s.
RECURSIVE RemoveForParenthesis(_)
RemoveForParenthesis(s) ==
    IF \A p \in 1..Len(s) : ForParenthesisEnd(s, p) = 0 THEN s
    ELSE LET cut(p) ==
                 SubSeq(s, 1, p - 1)
                 \o RemoveForParenthesis(SubSeq(s, ForParenthesisEnd(s, p) + 1,
                                                Len(s)))
         IN  Bind(CHOOSE x \in 1..Len(s) :
                      /\ ForParenthesisEnd(s, x) > 0
                      /\ \A y \in 1..(x - 1) : ForParenthesisEnd(s, y) = 0,
                  cut)

\* re.sub(r'\.com$', '', s).
RemoveDotComSuffix(s) ==
    IF StartsWithAt(s, Len(s) - 3, TextDotCom) THEN SubSeq(s, 1, Len(s) - 4) ELSE s

\* hashlib.md5(text.encode()).hexdigest(), taken for free of collisions: the
\* digests of two texts are equal exactly when the texts are.
Md5(text) == <<"md5", text>>

\* _generate_fingerprint.
GenerateFingerprint(job) ==
    LET title == RemoveForParenthesis(RemoveBoardSuffix(CollapseWhitespace(
                     Strip(Lower(GetText(job, "title"))))))
        company == RemoveAll(RemoveDotComSuffix(CollapseWhitespace(
                       Strip(Lower(GetText(job, "company"))))), TextBdjobsDotCom)
        location == CollapseWhitespace(Strip(Lower(GetText(job, "location"))))
    IN  Md5(JoinNonEmpty(<<title, company, location>>, <<"|">>))

\* _normalize_title.
NormalizeTitle(title) ==
    CollapseWhitespace(RemoveForParenthesis(RemoveBoardSuffix(Strip(Lower(title)))))

\* _normalize_company.
NormalizeCompany(company) ==
    CollapseWhitespace(RemoveAll(RemoveDotComSuffix(Strip(Lower(company))),
                                 TextBdjobsDotCom))

\* _calculate_similarity: the ratios of the titles, the companies and the
\* locations, to be weighted 0.6, 0.3 and 0.1.
CalculateSimilarity(job1, job2) ==
    [title |-> Ratio(NormalizeTitle(GetText(job1, "title")),
                     NormalizeTitle(GetText(job2, "title"))),
     company |-> Ratio(NormalizeCompany(GetText(job1, "company")),
                       NormalizeCompany(GetText(job2, "company"))),
     location |-> Ratio(Lower(GetText(job1, "location")),
                        Lower(GetText(job2, "location")))]

\* similarity >= self.similarity_threshold for the weighted average
\* 0.6 * title + 0.3 * company + 0.1 * location of the ratios, in exact
\* arithmetic on the numerators and denominators.
AtLeastThreshold(similarity) ==
    LET t == similarity.title
        c == similarity.company
        l == similarity.location
    IN  6 * t[1] * c[2] * l[2] + 3 * c[1] * t[2] * l[2] + l[1] * t[2] * c[2]
            >= similarity_threshold * t[2] * c[2] * l[2]

TextBDJobs == <<"B", "D", "J", "o", "b", "s">>
TextLinkedIn == <<"L", "i", "n", "k", "e", "d", "I", "n">>
TextLinkedInFastScraper ==
    TextLinkedIn \o <<" ", "(", "F", "a", "s", "t", " ", "S", "c", "r", "a", "p",
                      "e", "r", ")">>
TextIndeed == <<"I", "n", "d", "e", "e", "d">>
TextWebSearch == <<"W", "e", "b", " ", "S", "e", "a", "r", "c", "h">>

\* source_priority.get(source, 5) of _select_best_job_from_group.
SourcePriority(source) ==
    CASE source = TextBDJobs -> 1
      [] source = TextLinkedIn -> 2
      [] source = TextLinkedInFastScraper -> 2
      [] source = TextIndeed -> 3
      [] source = TextWebSearch -> 4
      [] OTHER -> 5

\* _calculate_job_quality_score, in units of 1/4200: 0.4 * completeness over the
\* 7 fields, 0.2 for a title of more than 10 characters, 0.2 for a summary of
\* more than 50, 0.1 for a url and 0.1 for a salary.
CalculateJobQualityScore(job) ==
    LET fields == {"title", "company", "location", "summary", "url", "salary",
                   "requirements"}
    IN  240 * Cardinality({f \in fields : HasText(job, f)})
        + (IF Len(GetText(job, "title")) > 10 THEN 840 ELSE 0)
        + (IF Len(GetText(job, "summary")) > 50 THEN 840 ELSE 0)
        + (IF HasText(job, "url") THEN 420 ELSE 0)
        + (IF HasText(job, "salary") THEN 420 ELSE 0)

\* final_score of _select_best_job_from_group, in units of 1/4200: the quality
\* score plus 1.0 / the priority of the source.
FinalScore(job) ==
    CalculateJobQualityScore(job)
    + 4200 \div SourcePriority(SplitFirst(GetText(job, "source"), <<" ", "(">>))

(***************************************************************************)
(* The listings of the model.                                              *)
(***************************************************************************)
\* "Web Developer"
TextWebDeveloper ==
    <<"W", "e", "b", " ", "D", "e", "v", "e", "l", "o", "p", "e", "r">>

\* "web  developer - for Acme"
TextWebDeveloperForAcme ==
    <<"w", "e", "b", " ", " ", "d", "e", "v", "e", "l", "o", "p", "e", "r", " ", "-",
      " ", "f", "o", "r", " ", "A", "c", "m", "e">>

\* "Sr Web Developer"
TextSrWebDeveloper ==
    <<"S", "r", " ", "W", "e", "b", " ", "D", "e", "v", "e", "l", "o", "p", "e", "r">>

\* "Sr Web Designer"
TextSrWebDesigner ==
    <<"S", "r", " ", "W", "e", "b", " ", "D", "e", "s", "i", "g", "n", "e", "r">>

\* "Data Analyst"
TextDataAnalyst ==
    <<"D", "a", "t", "a", " ", "A", "n", "a", "l", "y", "s", "t">>

\* "Urgent easy money"
TextUrgentEasyMoney ==
    <<"U", "r", "g", "e", "n", "t", " ", "e", "a", "s", "y", " ", "m", "o", "n", "e",
      "y">>

\* "Acme"
TextAcme ==
    <<"A", "c", "m", "e">>

\* "Acme.com"
TextAcmeDotCom ==
    <<"A", "c", "m", "e", ".", "c", "o", "m">>

\* "Beta Ltd"
TextBetaLtd ==
    <<"B", "e", "t", "a", " ", "L", "t", "d">>

\* "Dhaka"
TextDhaka ==
    <<"D", "h", "a", "k", "a">>

\* " dhaka"
TextSpaceDhaka ==
    <<" ", "d", "h", "a", "k", "a">>

\* "Remote"
TextRemote ==
    <<"R", "e", "m", "o", "t", "e">>

\* "Paris"
TextParis ==
    <<"P", "a", "r", "i", "s">>

\* "We are hiring a web developer to build and maintain our products."
TextHiringSummary ==
    <<"W", "e", " ", "a", "r", "e", " ", "h", "i", "r", "i", "n", "g", " ", "a", " ",
      "w", "e", "b", " ", "d", "e", "v", "e", "l", "o", "p", "e", "r", " ", "t", "o",
      " ", "b", "u", "i", "l", "d", " ", "a", "n", "d", " ", "m", "a", "i", "n", "t",
      "a", "i", "n", " ", "o", "u", "r", " ", "p", "r", "o", "d", "u", "c", "t", "s",
      ".">>

\* "Earn money, work from home, click here, no experience, part time"
TextSpamSummary ==
    <<"E", "a", "r", "n", " ", "m", "o", "n", "e", "y", ",", " ", "w", "o", "r", "k",
      " ", "f", "r", "o", "m", " ", "h", "o", "m", "e", ",", " ", "c", "l", "i", "c",
      "k", " ", "h", "e", "r", "e", ",", " ", "n", "o", " ", "e", "x", "p", "e", "r",
      "i", "e", "n", "c", "e", ",", " ", "p", "a", "r", "t", " ", "t", "i", "m", "e">>

\* "Good job"
TextGoodJob ==
    <<"G", "o", "o", "d", " ", "j", "o", "b">>

\* "https://acme.com/jobs/1"
TextAcmeJobUrl ==
    <<"h", "t", "t", "p", "s", ":", "/", "/", "a", "c", "m", "e", ".", "c", "o", "m",
      "/", "j", "o", "b", "s", "/", "1">>

\* "50k"
TextFiftyK ==
    <<"5", "0", "k">>

\* "Senior Python Developer"
TextSeniorPythonDeveloper ==
    <<"S", "e", "n", "i", "o", "r", " ", "P", "y", "t", "h", "o", "n", " ", "D", "e",
      "v", "e", "l", "o", "p", "e", "r">>

\* "Full time role. Skills: Python and Django. Experience :."
TextFullTimeSkillsPython ==
    <<"F", "u", "l", "l", " ", "t", "i", "m", "e", " ", "r", "o", "l", "e", ".", " ",
      "S", "k", "i", "l", "l", "s", ":", " ", "P", "y", "t", "h", "o", "n", " ",
      "a", "n", "d", " ", "D", "j", "a", "n", "g", "o", ".", " ", "E", "x", "p",
      "e", "r", "i", "e", "n", "c", "e", " ", ":", ".">>

\* A dict without any of the keys.
NoListing == [f \in ListingFields |-> None]

\* A posting found by the web search.
WebSearchListing ==
    [NoListing EXCEPT !.title = Some(TextWebDeveloper), !.company = Some(TextAcme),
                      !.location = Some(TextDhaka), !.source = Some(TextWebSearch)]

\* The same posting as the fast LinkedIn scraper writes it.
LinkedInListing ==
    [NoListing EXCEPT !.title = Some(TextWebDeveloperForAcme),
                      !.company = Some(TextAcmeDotCom),
                      !.location = Some(TextSpaceDhaka),
                      !.url = Some(TextAcmeJobUrl),
                      !.source = Some(TextLinkedInFastScraper)]

\* A complete listing of a similar posting.
BdjobsListing ==
    [NoListing EXCEPT !.title = Some(TextSrWebDeveloper), !.company = Some(TextAcme),
                      !.location = Some(TextDhaka),
                      !.summary = Some(TextHiringSummary),
                      !.url = Some(TextAcmeJobUrl), !.salary = Some(TextFiftyK),
                      !.source = Some(TextBDJobs)]

\* A posting similar to the one of BdjobsListing and less so to the first two.
DesignerListing ==
    [NoListing EXCEPT !.title = Some(TextSrWebDesigner), !.company = Some(TextAcme),
                      !.location = Some(TextDhaka), !.source = Some(TextIndeed)]

\* A posting unlike the others, without a source.
AnalystListing ==
    [NoListing EXCEPT !.title = Some(TextDataAnalyst), !.company = Some(TextBetaLtd),
                      !.location = Some(TextRemote), !.summary = Some(TextGoodJob)]

\* A complete listing that names skills, a level and a type of job.
PythonListing ==
    [NoListing EXCEPT !.title = Some(TextSeniorPythonDeveloper),
                      !.company = Some(TextBetaLtd), !.location = Some(TextParis),
                      !.summary = Some(TextFullTimeSkillsPython),
                      !.url = Some(TextAcmeJobUrl)]

\* The posting of WebSearchListing as a second source returned it: the same
\* title, company and location.
WebSearchTwin ==
    [WebSearchListing EXCEPT !.url = Some(TextAcmeJobUrl), !.source = Some(TextIndeed)]

\* The posting of LinkedInListing under the scraper's other source name: the same
\* fields present and the same source priority, so the same final score.
LinkedInTwin == [LinkedInListing EXCEPT !.source = Some(TextLinkedIn)]

JobPool ==
    <<WebSearchListing, LinkedInListing, BdjobsListing, DesignerListing,
      AnalystListing, WebSearchTwin, LinkedInTwin>>

\* The lists handed to deduplicate_jobs: every list of at most MaxJobs listings
\* of the pool.
JobLists ==
    UNION {{[k \in 1..n |-> JobPool[pick[k]]] : pick \in [1..n -> 1..Len(JobPool)]} :
              n \in 0..MaxJobs}

\* The listings handed to process_jobs, and the lists of at most MaxQaJobs of
\* them.
QaPool ==
    <<BdjobsListing, [BdjobsListing EXCEPT !.company = Some(<<" ", " ">>)],
      [BdjobsListing EXCEPT !.location = None], AnalystListing, PythonListing,
      WebSearchListing, [BdjobsListing EXCEPT !.title = None],
      [BdjobsListing EXCEPT !.company = None],
      [BdjobsListing EXCEPT !.summary = Some(<<>>)]>>

QaLists ==
    UNION {{[k \in 1..n |-> QaPool[pick[k]]] : pick \in [1..n -> 1..Len(QaPool)]} :
              n \in 0..MaxQaJobs}

AllListings == Range(JobPool) \cup Range(QaPool)

\* The fingerprint, the final score and the similar listings of every listing of
\* the pools, computed once.
PoolFingerprint == [job \in AllListings |-> GenerateFingerprint(job)]

PoolFinalScore == [job \in AllListings |-> FinalScore(job)]

PoolSimilar ==
    [job1 \in AllListings |->
        {job2 \in AllListings :
            AtLeastThreshold(CalculateSimilarity(job1, job2))}]

\* _generate_fingerprint(job), looked up for a listing of the pool.
FingerprintOf(job) ==
    IF job \in DOMAIN PoolFingerprint THEN PoolFingerprint[job]
    ELSE GenerateFingerprint(job)

\* final_score of a listing, looked up for a listing of the pool.
FinalScoreOf(job) ==
    IF job \in DOMAIN PoolFinalScore THEN PoolFinalScore[job] ELSE FinalScore(job)

\* _calculate_similarity(job1, job2) >= self.similarity_threshold, looked up for
\* listings of the pool.
Similar(job1, job2) ==
    IF job1 \in DOMAIN PoolSimilar /\ job2 \in DOMAIN PoolSimilar
    THEN job2 \in PoolSimilar[job1]
    ELSE AtLeastThreshold(CalculateSimilarity(job1, job2))

\* The indices 0..len(jobs)-1 in ascending order that are in the set keep.
IndicesIn(keep, n) == SelectSeq([k \in 1..n |-> k - 1], LAMBDA i : i \in keep)

\* _find_exact_duplicates: the indices grouped by fingerprint, the groups in the
\* order in which their fingerprints appear first (dict order), of which the
\* groups of more than one index are returned.
FindExactDuplicates(jobs) ==
    LET n == Len(jobs)
        grouped(fingerprint) ==
            LET first == {i \in 0..(n - 1) :
                            \A h \in 0..(i - 1) : fingerprint[h] # fingerprint[i]}
                group(i) == IndicesIn({h \in 0..(n - 1) :
                                          fingerprint[h] = fingerprint[i]}, n)
                all == [k \in 1..Cardinality(first) |-> group(IndicesIn(first, n)[k])]
            IN  SelectSeq(all, LAMBDA g : Len(g) > 1)
    IN  Bind([i \in 0..(n - 1) |-> FingerprintOf(jobs[i + 1])], grouped)

\* The union of the groups' indices.
RECURSIVE GroupedIndices(_)
GroupedIndices(groups) ==
    IF groups = <<>> THEN {} ELSE Range(Head(groups)) \cup GroupedIndices(Tail(groups))

\* The loop of _find_fuzzy_duplicates from index i on: the groups found and the
\* number of similarity checks made. An index that is not processed opens a group
\* and takes in every later index that is not processed and is similar to it.
RECURSIVE FuzzyLoop(_, _, _, _, _)
FuzzyLoop(jobs, i, processed_indices, fuzzy_groups, similarity_checks) ==
    IF i >= Len(jobs)
    THEN [groups |-> fuzzy_groups, similarity_checks |-> similarity_checks]
    ELSE IF i \in processed_indices
    THEN FuzzyLoop(jobs, i + 1, processed_indices, fuzzy_groups, similarity_checks)
    ELSE LET others == {j \in (i + 1)..(Len(jobs) - 1) : j \notin processed_indices}
             grown(similar) ==
                 LET current_group == <<i>> \o IndicesIn(similar, Len(jobs))
                 IN  IF Len(current_group) > 1
                     THEN FuzzyLoop(jobs, i + 1,
                                    processed_indices \cup similar \cup {i},
                                    Append(fuzzy_groups, current_group),
                                    similarity_checks + Cardinality(others))
                     ELSE FuzzyLoop(jobs, i + 1, processed_indices, fuzzy_groups,
                                    similarity_checks + Cardinality(others))
         IN  Bind({j \in others : Similar(jobs[i + 1], jobs[j + 1])}, grown)

\* A fuzzy pass that starts with no index processed.
FindFuzzyDuplicatesOfAll(jobs, exact_duplicates) ==
    FuzzyLoop(jobs, 0, {}, <<>>, 0)

\* _find_fuzzy_duplicates.
FindFuzzyDuplicates(jobs, exact_duplicates) ==
    FuzzyLoop(jobs, 0, GroupedIndices(exact_duplicates), <<>>, 0)

\* A choice that takes the first index of the group, whatever the scores.
SelectFirstJobFromGroup(jobs, group) == group[1]

\* _select_best_job_from_group: the first index of the group whose final score no
\* other index of the group exceeds.
SelectBestJobFromGroup(jobs, group) ==
    LET first(final_score) ==
            group[CHOOSE k \in 1..Len(group) :
                    /\ \A h \in 1..Len(group) :
                          final_score[group[h]] <= final_score[group[k]]
                    /\ \A h \in 1..(k - 1) :
                          final_score[group[h]] < final_score[group[k]]]
    IN  Bind([i \in Range(group) |-> FinalScoreOf(jobs[i + 1])], first)

\* selected_indices with every index added, grouped or not.
SelectedIndicesOfAll(jobs, duplicate_groups) ==
    {SelectBestJobFromGroup(jobs, duplicate_groups[g]) :
        g \in 1..Len(duplicate_groups)}
    \cup (0..(Len(jobs) - 1))

\* selected_indices of _select_best_jobs: the best index of every group and the
\* indices that are in no group.
SelectedIndices(jobs, duplicate_groups) ==
    {SelectBestJobFromGroup(jobs, duplicate_groups[g]) :
        g \in 1..Len(duplicate_groups)}
    \cup ((0..(Len(jobs) - 1)) \ GroupedIndices(duplicate_groups))

\* A selection returned in descending order of the indices.
SelectBestJobsReversed(jobs, duplicate_groups) ==
    LET chosen(selected_indices) ==
            [k \in 1..Len(selected_indices) |->
                jobs[selected_indices[Len(selected_indices) + 1 - k] + 1]]
    IN  Bind(IndicesIn(SelectedIndices(jobs, duplicate_groups), Len(jobs)), chosen)

\* _select_best_jobs: [jobs[i] for i in sorted(selected_indices)].
SelectBestJobs(jobs, duplicate_groups) ==
    LET chosen(selected_indices) ==
            [k \in 1..Len(selected_indices) |-> jobs[selected_indices[k] + 1]]
    IN  Bind(IndicesIn(SelectedIndices(jobs, duplicate_groups), Len(jobs)), chosen)

\* JobDeduplicator.deduplication_stats after __init__.
InitialDeduplicationStats ==
    [total_jobs |-> 0, unique_jobs |-> 0, duplicates_removed |-> 0,
     duplicate_groups |-> 0, similarity_checks |-> 0]

\* deduplicate_jobs on a deduplicator whose statistics are stats: the
\* DeduplicationResult, whose deduplication_stats are the deduplicator's own.
DeduplicateJobs(jobs, stats) ==
    IF jobs = <<>>
    THEN [unique_jobs |-> <<>>, duplicates_removed |-> 0, duplicate_groups |-> <<>>,
          deduplication_stats |-> stats]
    ELSE LET finish(exact_duplicates) ==
             LET close(fuzzy) ==
                 LET all_duplicate_groups == exact_duplicates \o fuzzy.groups
                     report(unique_jobs) ==
                         [unique_jobs |-> unique_jobs,
                          duplicates_removed |-> Len(jobs) - Len(unique_jobs),
                          duplicate_groups |-> all_duplicate_groups,
                          deduplication_stats |->
                              [total_jobs |-> Len(jobs),
                               unique_jobs |-> Len(unique_jobs),
                               duplicates_removed |-> Len(jobs) - Len(unique_jobs),
                               duplicate_groups |-> Len(all_duplicate_groups),
                               similarity_checks |->
                                   stats.similarity_checks + fuzzy.similarity_checks]]
                 IN  Bind(SelectBestJobs(jobs, all_duplicate_groups), report)
             IN  Bind(FindFuzzyDuplicates(jobs, exact_duplicates), close)
         IN  Bind(FindExactDuplicates(jobs), finish)

(***************************************************************************)
(* JobValidator. A score is kept in hundredths: every step adds or         *)
(* subtracts a multiple of 0.01, and the double-precision sum is within    *)
(* 1e-15 of the exact one.                                                 *)
(***************************************************************************)
ValidationLevels == {"strict", "moderate", "lenient"}

\* JobValidator.thresholds; min_quality_score in hundredths.
thresholds ==
    [strict |-> [min_title_length |-> 5, min_company_length |-> 2,
                 min_summary_length |-> 20, min_quality_score |-> 70,
                 require_url |-> TRUE, require_salary |-> FALSE],
     moderate |-> [min_title_length |-> 3, min_company_length |-> 2,
                   min_summary_length |-> 10, min_quality_score |-> 50,
                   require_url |-> FALSE, require_salary |-> FALSE],
     lenient |-> [min_title_length |-> 2, min_company_length |-> 1,
                  min_summary_length |-> 5, min_quality_score |-> 30,
                  require_url |-> FALSE, require_salary |-> FALSE]]

\* JobValidator.required_fields, in the order validate_job goes through them.
required_fields == <<"title", "company", "location", "summary">>

\* What a validation step gives: the score it adds and the issues and warnings
\* it appends.
Finding(score, issues, warnings) ==
    [score |-> score, issues |-> issues, warnings |-> warnings]

\* The list of x when b holds, the empty list otherwise.
When(b, x) == IF b THEN <<x>> ELSE <<>>

\* The penalty n when b holds.
Penalty(b, n) == IF b THEN n ELSE 0

\* r'\b(urgent|immediate|quick|fast|easy|simple|basic)\b' of _validate_title.
TitleSpamUrgency ==
    {<<"u", "r", "g", "e", "n", "t">>, <<"i", "m", "m", "e", "d", "i", "a", "t", "e">>,
     <<"q", "u", "i", "c", "k">>, <<"f", "a", "s", "t">>, <<"e", "a", "s", "y">>,
     <<"s", "i", "m", "p", "l", "e">>, <<"b", "a", "s", "i", "c">>}

\* r'\b(work from home|wfh|online|internet|computer)\b' of _validate_title.
TitleSpamRemote ==
    {<<"w", "o", "r", "k", " ", "f", "r", "o", "m", " ", "h", "o", "m", "e">>,
     <<"w", "f", "h">>, <<"o", "n", "l", "i", "n", "e">>,
     <<"i", "n", "t", "e", "r", "n", "e", "t">>,
     <<"c", "o", "m", "p", "u", "t", "e", "r">>}

\* r'\b(earn|money|income|salary|pay|profit)\b' of _validate_title.
TitleSpamMoney ==
    {<<"e", "a", "r", "n">>, <<"m", "o", "n", "e", "y">>,
     <<"i", "n", "c", "o", "m", "e">>, <<"s", "a", "l", "a", "r", "y">>,
     <<"p", "a", "y">>, <<"p", "r", "o", "f", "i", "t">>}

\* r'\b(click|visit|call|email|apply now)\b' of _validate_title.
TitleSpamAction ==
    {<<"c", "l", "i", "c", "k">>, <<"v", "i", "s", "i", "t">>, <<"c", "a", "l", "l">>,
     <<"e", "m", "a", "i", "l">>, <<"a", "p", "p", "l", "y", " ", "n", "o", "w">>}

\* valid_titles of _validate_title.
valid_titles ==
    {<<"d", "e", "v", "e", "l", "o", "p", "e", "r">>,
     <<"e", "n", "g", "i", "n", "e", "e", "r">>, <<"m", "a", "n", "a", "g", "e", "r">>,
     <<"a", "n", "a", "l", "y", "s", "t">>, <<"d", "e", "s", "i", "g", "n", "e", "r">>,
     <<"s", "p", "e", "c", "i", "a", "l", "i", "s", "t">>,
     <<"c", "o", "o", "r", "d", "i", "n", "a", "t", "o", "r">>,
     <<"a", "s", "s", "i", "s", "t", "a", "n", "t">>,
     <<"c", "o", "n", "s", "u", "l", "t", "a", "n", "t">>, <<"l", "e", "a", "d">>,
     <<"a", "r", "c", "h", "i", "t", "e", "c", "t">>,
     <<"s", "c", "i", "e", "n", "t", "i", "s", "t">>,
     <<"r", "e", "s", "e", "a", "r", "c", "h", "e", "r">>,
     <<"a", "d", "m", "i", "n", "i", "s", "t", "r", "a", "t", "o", "r">>}

\* r'\b(company|corp|inc|ltd|llc|group|tech|software|solutions)\b' of _validate_company.
CompanyGenericForm ==
    {<<"c", "o", "m", "p", "a", "n", "y">>, <<"c", "o", "r", "p">>, <<"i", "n", "c">>,
     <<"l", "t", "d">>, <<"l", "l", "c">>, <<"g", "r", "o", "u", "p">>,
     <<"t", "e", "c", "h">>, <<"s", "o", "f", "t", "w", "a", "r", "e">>,
     <<"s", "o", "l", "u", "t", "i", "o", "n", "s">>}

\* r'\b(online|internet|digital|virtual|remote)\b' of _validate_company.
CompanyGenericOnline ==
    {<<"o", "n", "l", "i", "n", "e">>, <<"i", "n", "t", "e", "r", "n", "e", "t">>,
     <<"d", "i", "g", "i", "t", "a", "l">>, <<"v", "i", "r", "t", "u", "a", "l">>,
     <<"r", "e", "m", "o", "t", "e">>}

\* r'\b(dhaka|chittagong|sylhet|rajshahi|khulna|barisal|rangpur|mymensingh)\b' of _validate_location.
LocationCities ==
    {<<"d", "h", "a", "k", "a">>, <<"c", "h", "i", "t", "t", "a", "g", "o", "n", "g">>,
     <<"s", "y", "l", "h", "e", "t">>, <<"r", "a", "j", "s", "h", "a", "h", "i">>,
     <<"k", "h", "u", "l", "n", "a">>, <<"b", "a", "r", "i", "s", "a", "l">>,
     <<"r", "a", "n", "g", "p", "u", "r">>,
     <<"m", "y", "m", "e", "n", "s", "i", "n", "g", "h">>}

\* r'\b(bangladesh|bd)\b' of _validate_location.
LocationCountry ==
    {<<"b", "a", "n", "g", "l", "a", "d", "e", "s", "h">>, <<"b", "d">>}

\* r'\b(remote|work from home|wfh|online)\b' of _validate_location.
LocationRemote ==
    {<<"r", "e", "m", "o", "t", "e">>,
     <<"w", "o", "r", "k", " ", "f", "r", "o", "m", " ", "h", "o", "m", "e">>,
     <<"w", "f", "h">>, <<"o", "n", "l", "i", "n", "e">>}

\* r'\b(gulshan|banani|uttara|dhanmondi|mirpur)\b' of _validate_location.
LocationAreas ==
    {<<"g", "u", "l", "s", "h", "a", "n">>, <<"b", "a", "n", "a", "n", "i">>,
     <<"u", "t", "t", "a", "r", "a">>, <<"d", "h", "a", "n", "m", "o", "n", "d", "i">>,
     <<"m", "i", "r", "p", "u", "r">>}

\* _validate_title.
ValidateTitle(title, level_thresholds) ==
    IF title = <<>> THEN Finding(-20, <<"Job title is required">>, <<>>)
    ELSE LET stripped == Strip(title)
             short == Len(stripped) < level_thresholds.min_title_length
             spam == <<SearchWords(Lower(stripped), TitleSpamUrgency),
                       SearchWords(Lower(stripped), TitleSpamRemote),
                       SearchWords(Lower(stripped), TitleSpamMoney),
                       SearchWords(Lower(stripped), TitleSpamAction)>>
             unrealistic == ~\E w \in valid_titles : Contains(Lower(stripped), w)
         IN  Finding(- Penalty(short, 10)
                     - Penalty(spam[1], 5) - Penalty(spam[2], 5)
                     - Penalty(spam[3], 5) - Penalty(spam[4], 5)
                     - Penalty(unrealistic, 5),
                     When(short, "Job title too short"),
                     When(spam[1], "Title contains potential spam words: urgency")
                     \o When(spam[2], "Title contains potential spam words: remote")
                     \o When(spam[3], "Title contains potential spam words: money")
                     \o When(spam[4], "Title contains potential spam words: action")
                     \o When(unrealistic, "Job title may not be realistic"))

\* _validate_company.
ValidateCompany(company, level_thresholds) ==
    IF company = <<>> THEN Finding(-20, <<"Company name is required">>, <<>>)
    ELSE LET stripped == Strip(company)
             short == Len(stripped) < level_thresholds.min_company_length
             spam_count ==
                 Penalty(SearchWords(Lower(stripped), CompanyGenericForm), 1)
                 + Penalty(SearchWords(Lower(stripped), CompanyGenericOnline), 1)
         IN  Finding(- Penalty(short, 10) - Penalty(spam_count >= 2, 5),
                     When(short, "Company name too short"),
                     When(spam_count >= 2,
                          "Company name contains multiple generic terms"))

\* _validate_location.
ValidateLocation(location) ==
    IF location = <<>> THEN Finding(-5, <<>>, <<"Location not specified">>)
    ELSE LET stripped == Lower(Strip(location))
             unknown == ~\E words \in {LocationCities, LocationCountry,
                                       LocationRemote, LocationAreas} :
                            SearchWords(stripped, words)
         IN  Finding(- Penalty(unknown, 5), <<>>,
                     When(unknown,
                          "Location may not be valid for Bangladesh job market"))

\* A summary that is penalised 0.5 for being brief.
ValidateSummaryHarsh(summary, level_thresholds) ==
    IF summary = <<>> THEN Finding(-5, <<>>, <<"Job summary not provided">>)
    ELSE LET stripped == Strip(summary)
             short == Len(stripped) < level_thresholds.min_summary_length
             brief == SplitCount(stripped) < 5
         IN  Finding(- Penalty(short, 10) - Penalty(brief, 50),
                     When(short, "Job summary too short"),
                     When(brief, "Job summary seems too brief"))

\* _validate_summary.
ValidateSummary(summary, level_thresholds) ==
    IF summary = <<>> THEN Finding(-5, <<>>, <<"Job summary not provided">>)
    ELSE LET stripped == Strip(summary)
             short == Len(stripped) < level_thresholds.min_summary_length
             brief == SplitCount(stripped) < 5
         IN  Finding(- Penalty(short, 10) - Penalty(brief, 5),
                     When(short, "Job summary too short"),
                     When(brief, "Job summary seems too brief"))

\* re.match(r'^https?://[^\s/$.?#].[^\s]*$', url): the scheme, a character that
\* is none of whitespace / $ . ? #, any character, and no whitespace behind it.
UrlWellFormed(url) ==
    \E scheme \in {<<"h", "t", "t", "p", ":", "/", "/">>,
                   <<"h", "t", "t", "p", "s", ":", "/", "/">>} :
        /\ StartsWithAt(url, 1, scheme)
        /\ Len(url) >= Len(scheme) + 2
        /\ url[Len(scheme) + 1] \notin {" ", "/", "$", ".", "?", "#"}
        /\ \A i \in (Len(scheme) + 3)..Len(url) : ~IsSpace(url[i])

\* suspicious_domains of _validate_url.
suspicious_domains ==
    {<<"b", "i", "t", ".", "l", "y">>, <<"t", "i", "n", "y", "u", "r", "l">>,
     <<"g", "o", "o", ".", "g", "l">>, <<"t", ".", "c", "o">>}

\* (?:k|k\+|taka|bdt) of the first salary pattern of _validate_salary.
SalaryUnits ==
    {<<"k">>, <<"k", "+">>, <<"t", "a", "k", "a">>, <<"b", "d", "t">>}

\* r'\b(negotiable|competitive|market rate|as per company policy)\b' of _validate_salary.
SalaryWords ==
    {<<"n", "e", "g", "o", "t", "i", "a", "b", "l", "e">>,
     <<"c", "o", "m", "p", "e", "t", "i", "t", "i", "v", "e">>,
     <<"m", "a", "r", "k", "e", "t", " ", "r", "a", "t", "e">>,
     <<"a", "s", " ", "p", "e", "r", " ", "c", "o", "m", "p", "a", "n", "y", " ", "p", "o", "l", "i", "c", "y">>}

\* r'\b(earn money|make money|quick money|easy money)\b' of _detect_spam.
SpamMoney ==
    {<<"e", "a", "r", "n", " ", "m", "o", "n", "e", "y">>,
     <<"m", "a", "k", "e", " ", "m", "o", "n", "e", "y">>,
     <<"q", "u", "i", "c", "k", " ", "m", "o", "n", "e", "y">>,
     <<"e", "a", "s", "y", " ", "m", "o", "n", "e", "y">>}

\* r'\b(work from home|wfh|online job|internet job)\b' of _detect_spam.
SpamRemote ==
    {<<"w", "o", "r", "k", " ", "f", "r", "o", "m", " ", "h", "o", "m", "e">>,
     <<"w", "f", "h">>, <<"o", "n", "l", "i", "n", "e", " ", "j", "o", "b">>,
     <<"i", "n", "t", "e", "r", "n", "e", "t", " ", "j", "o", "b">>}

\* r'\b(click|visit|call|email|apply now|urgent)\b' of _detect_spam.
SpamAction ==
    {<<"c", "l", "i", "c", "k">>, <<"v", "i", "s", "i", "t">>, <<"c", "a", "l", "l">>,
     <<"e", "m", "a", "i", "l">>, <<"a", "p", "p", "l", "y", " ", "n", "o", "w">>,
     <<"u", "r", "g", "e", "n", "t">>}

\* r'\b(no experience|no skills|anyone can do)\b' of _detect_spam.
SpamNoExperience ==
    {<<"n", "o", " ", "e", "x", "p", "e", "r", "i", "e", "n", "c", "e">>,
     <<"n", "o", " ", "s", "k", "i", "l", "l", "s">>,
     <<"a", "n", "y", "o", "n", "e", " ", "c", "a", "n", " ", "d", "o">>}

\* r'\b(part time|flexible hours|own schedule)\b' of _detect_spam.
SpamPartTime ==
    {<<"p", "a", "r", "t", " ", "t", "i", "m", "e">>,
     <<"f", "l", "e", "x", "i", "b", "l", "e", " ", "h", "o", "u", "r", "s">>,
     <<"o", "w", "n", " ", "s", "c", "h", "e", "d", "u", "l", "e">>}

\* _validate_url.
ValidateUrl(url, level_thresholds) ==
    IF url = <<>>
    THEN IF level_thresholds.require_url
         THEN Finding(-20, <<"Job URL is required">>, <<>>)
         ELSE Finding(-5, <<>>, <<"Job URL not provided">>)
    ELSE LET malformed == ~UrlWellFormed(url)
             suspicious == \E d \in suspicious_domains : Contains(Lower(url), d)
         IN  Finding(- Penalty(malformed, 10) - Penalty(suspicious, 5),
                     When(malformed, "Invalid URL format"),
                     When(suspicious, "URL contains suspicious domain"))

\* re.search(r'\b\d{1,3}(?:,\d{3})*(?:k|k\+|taka|bdt)\b', s): at a word
\* boundary one to three digits, groups of a comma and three digits, a unit, and
\* a word boundary.
SearchSalaryAmount(s) ==
    LET digit(i) == i >= 1 /\ i <= Len(s) /\ s[i] \in Digits
    IN  \E p \in 1..Len(s), d \in 1..3, g \in 0..Len(s) :
            /\ WordBoundary(s, p)
            /\ \A i \in 0..(d - 1) : digit(p + i)
            /\ \A m \in 0..(g - 1) :
                  /\ StartsWithAt(s, p + d + 4 * m, <<",">>)
                  /\ \A i \in 1..3 : digit(p + d + 4 * m + i)
            /\ \E u \in SalaryUnits :
                  /\ StartsWithAt(s, p + d + 4 * g, u)
                  /\ WordBoundary(s, p + d + 4 * g + Len(u))

\* _validate_salary, in hundredths.
ValidateSalary(salary) ==
    LET unrealistic == /\ ~SearchSalaryAmount(Lower(salary))
                       /\ ~SearchWords(Lower(salary), SalaryWords)
    IN  IF salary = <<>> THEN Finding(0, <<>>, <<>>)
        ELSE Finding(- Penalty(unrealistic, 2), <<>>,
                     When(unrealistic, "Salary format may not be realistic"))

\* text of _detect_spam: f"{job.get('title', '')} {job.get('summary', '')}".lower().
SpamText(job) == Lower(GetText(job, "title") \o <<" ">> \o GetText(job, "summary"))

\* The spam indicators of _detect_spam, in the order of the code.
spam_indicators == <<SpamMoney, SpamRemote, SpamAction, SpamNoExperience, SpamPartTime>>

\* The indicators of _detect_spam that the listing's text matches.
MatchedIndicators(job) ==
    {k \in 1..Len(spam_indicators) : SearchWords(SpamText(job), spam_indicators[k])}

\* _detect_spam: the spam score, which validate_job subtracts; score is positive.
DetectSpam(job) ==
    LET text == SpamText(job)
        matched == MatchedIndicators(job)
        \* sum(1 for c in text if c.isupper()) / len(text) > 0.3
        capitals == 10 * Cardinality({i \in 1..Len(text) :
                                         text[i] \in Range(UpperLetters)})
                        > 3 * Len(text)
    IN  Finding(10 * Cardinality(matched) + Penalty(capitals, 5), <<>>,
                When(1 \in matched, "Potential spam indicator: money")
                \o When(2 \in matched, "Potential spam indicator: remote")
                \o When(3 \in matched, "Potential spam indicator: action")
                \o When(4 \in matched, "Potential spam indicator: no experience")
                \o When(5 \in matched, "Potential spam indicator: part time")
                \o When(capitals, "Excessive capitalization detected"))

\* A grading whose steps are 0.2 lower each.
DetermineQualityLevelLower(score) ==
    IF score >= 60 THEN "excellent"
    ELSE IF score >= 40 THEN "good"
    ELSE IF score >= 20 THEN "fair"
    ELSE IF score > 0 THEN "poor"
    ELSE "invalid"

\* _determine_quality_level on a score in hundredths.
DetermineQualityLevel(score) ==
    IF score >= 80 THEN "excellent"
    ELSE IF score >= 60 THEN "good"
    ELSE IF score >= 40 THEN "fair"
    ELSE IF score >= 20 THEN "poor"
    ELSE "invalid"

\* _generate_suggestions.
GenerateSuggestions(job, score) ==
    When(score < 60, "Consider adding more detailed job description")
    \o When(~HasText(job, "url"), "Add direct application URL if available")
    \o When(~HasText(job, "salary"), "Include salary information if available")
    \o When(~HasText(job, "requirements"), "Add job requirements and qualifications")
    \o When(Len(GetText(job, "summary")) < 50, "Provide more detailed job summary")

\* The loop of validate_job over required_fields from the k-th on.
RECURSIVE RequiredFieldsFrom(_, _)
RequiredFieldsFrom(job, k) ==
    IF k > Len(required_fields) THEN Finding(0, <<>>, <<>>)
    ELSE LET rest == RequiredFieldsFrom(job, k + 1)
             missing == ~HasText(job, required_fields[k])
         IN  Finding((IF missing THEN -20 ELSE 10) + rest.score,
                     When(missing, "Missing required field: " \o required_fields[k])
                     \o rest.issues,
                     rest.warnings)

\* A validity decision that also wants the list of issues empty.
IsValidWithoutIssues(score, issues, level_thresholds) ==
    score >= level_thresholds.min_quality_score /\ issues = <<>>

\* is_valid of validate_job: score >= thresholds['min_quality_score'], whatever
\* the issues.
IsValid(score, issues, level_thresholds) ==
    score >= level_thresholds.min_quality_score

\* The exception validate_job raises on a listing of texts, "none" when it
\* returns: _detect_spam divides by len(text).
ValidateJobRaises(job) ==
    IF Len(SpamText(job)) = 0 THEN "ZeroDivisionError" ELSE "none"

\* validate_job of a validator of the given level: the ValidationResult.
ValidateJob(job, validation_level) ==
    LET level_thresholds == thresholds[validation_level]
        steps == <<RequiredFieldsFrom(job, 1),
                   ValidateTitle(GetText(job, "title"), level_thresholds),
                   ValidateCompany(GetText(job, "company"), level_thresholds),
                   ValidateLocation(GetText(job, "location")),
                   ValidateSummary(GetText(job, "summary"), level_thresholds),
                   ValidateUrl(GetText(job, "url"), level_thresholds),
                   ValidateSalary(GetText(job, "salary"))>>
        spam == DetectSpam(job)
        concluded(done) ==
            LET sum == done[1].score + done[2].score + done[3].score + done[4].score
                       + done[5].score + done[6].score + done[7].score
                       - done[8].score
                score == Max(0, Min(100, sum))
                issues == done[1].issues \o done[2].issues \o done[3].issues
                          \o done[4].issues \o done[5].issues \o done[6].issues
                          \o done[7].issues \o done[8].issues
            IN  [is_valid |-> IsValid(score, issues, level_thresholds),
                 quality_score |-> score,
                 quality_level |-> DetermineQualityLevel(score),
                 issues |-> issues,
                 warnings |-> done[1].warnings \o done[2].warnings
                              \o done[3].warnings \o done[4].warnings
                              \o done[5].warnings \o done[6].warnings
                              \o done[7].warnings \o done[8].warnings,
                 suggestions |-> GenerateSuggestions(job, score)]
    IN  Bind(Append(steps, spam), concluded)

(***************************************************************************)
(* The listings handed to the validator.                                   *)
(***************************************************************************)
\* The listing with the fields in absent taken out.
Without(listing, absent) ==
    [f \in ListingFields |-> IF f \in absent THEN None ELSE listing[f]]

\* The listings handed to validate_job: listings of the pool without some of
\* their required fields, at most MaxAbsentFields of them, and one whose summary
\* is the empty text.
ValidatorJobs ==
    {Without(listing, absent) :
        listing \in {LinkedInListing, BdjobsListing},
        absent \in {a \in SUBSET Range(required_fields) :
                       Cardinality(a) <= MaxAbsentFields}}
    \cup {[BdjobsListing EXCEPT !.summary = Some(<<>>)],
          \* a company of two spaces: present, and too short at every level
          [BdjobsListing EXCEPT !.company = Some(<<" ", " ">>)]}

\* The values an absent required field is filled in with.
FillValues ==
    [title |-> {TextWebDeveloper, TextUrgentEasyMoney},
     company |-> {TextAcme, TextBetaLtd},
     location |-> {TextDhaka, TextParis},
     summary |-> {TextHiringSummary, TextSpamSummary, TextGoodJob}]

(***************************************************************************)
(* JobEnricher. A list of str whose order the code leaves to the hashing   *)
(* of a set is kept as a set.                                              *)
(***************************************************************************)
\* "Not specified"
TextNotSpecified ==
    <<"N", "o", "t", " ", "s", "p", "e", "c", "i", "f", "i", "e", "d">>

\* _initialize_skill_patterns: the skills of every category, as one set; the
\* categories play no part in the extraction.
skill_patterns ==
    {<<"p", "y", "t", "h", "o", "n">>,
     <<"j", "a", "v", "a">>,
     <<"j", "a", "v", "a", "s", "c", "r", "i", "p", "t">>,
     <<"t", "y", "p", "e", "s", "c", "r", "i", "p", "t">>,
     <<"c", "+", "+">>,
     <<"c", "#">>,
     <<"p", "h", "p">>,
     <<"r", "u", "b", "y">>,
     <<"g", "o">>,
     <<"r", "u", "s", "t">>,
     <<"s", "w", "i", "f", "t">>,
     <<"k", "o", "t", "l", "i", "n">>,
     <<"r", "e", "a", "c", "t">>,
     <<"a", "n", "g", "u", "l", "a", "r">>,
     <<"v", "u", "e">>,
     <<"n", "o", "d", "e", ".", "j", "s">>,
     <<"d", "j", "a", "n", "g", "o">>,
     <<"f", "l", "a", "s", "k">>,
     <<"s", "p", "r", "i", "n", "g">>,
     <<"l", "a", "r", "a", "v", "e", "l">>,
     <<"e", "x", "p", "r", "e", "s", "s">>,
     <<"f", "a", "s", "t", "a", "p", "i">>,
     <<"m", "y", "s", "q", "l">>,
     <<"p", "o", "s", "t", "g", "r", "e", "s", "q", "l">>,
     <<"m", "o", "n", "g", "o", "d", "b">>,
     <<"r", "e", "d", "i", "s">>,
     <<"e", "l", "a", "s", "t", "i", "c", "s", "e", "a", "r", "c", "h">>,
     <<"s", "q", "l", "i", "t", "e">>,
     <<"o", "r", "a", "c", "l", "e">>,
     <<"s", "q", "l", " ", "s", "e", "r", "v", "e", "r">>,
     <<"a", "w", "s">>,
     <<"a", "z", "u", "r", "e">>,
     <<"g", "c", "p">>,
     <<"h", "e", "r", "o", "k", "u">>,
     <<"d", "i", "g", "i", "t", "a", "l", "o", "c", "e", "a", "n">>,
     <<"f", "i", "r", "e", "b", "a", "s", "e">>,
     <<"v", "e", "r", "c", "e", "l">>,
     <<"n", "e", "t", "l", "i", "f", "y">>,
     <<"d", "o", "c", "k", "e", "r">>,
     <<"k", "u", "b", "e", "r", "n", "e", "t", "e", "s">>,
     <<"j", "e", "n", "k", "i", "n", "s">>,
     <<"g", "i", "t">>,
     <<"g", "i", "t", "h", "u", "b">>,
     <<"g", "i", "t", "l", "a", "b">>,
     <<"j", "i", "r", "a">>,
     <<"c", "o", "n", "f", "l", "u", "e", "n", "c", "e">>,
     <<"s", "l", "a", "c", "k">>,
     <<"a", "g", "i", "l", "e">>,
     <<"s", "c", "r", "u", "m">>,
     <<"k", "a", "n", "b", "a", "n">>,
     <<"d", "e", "v", "o", "p", "s">>,
     <<"c", "i", "/", "c", "d">>,
     <<"t", "d", "d">>,
     <<"b", "d", "d">>,
     <<"l", "e", "a", "n">>}

\* _initialize_experience_patterns, in the order of the dict; title is
\* level.replace('_', ' ').title().
experience_patterns ==
    <<[title |-> <<"E", "n", "t", "r", "y", " ", "L", "e", "v", "e", "l">>,
       patterns |->
           {<<"e", "n", "t", "r", "y">>,
            <<"j", "u", "n", "i", "o", "r">>,
            <<"f", "r", "e", "s", "h", "e", "r">>,
            <<"g", "r", "a", "d", "u", "a", "t", "e">>,
            <<"0", "-", "1", " ", "y", "e", "a", "r", "s">>,
            <<"0", "-", "2", " ", "y", "e", "a", "r", "s">>,
            <<"n", "o", " ", "e", "x", "p", "e", "r", "i", "e", "n", "c", "e">>}],
      [title |-> <<"M", "i", "d", " ", "L", "e", "v", "e", "l">>,
       patterns |->
           {<<"m", "i", "d">>,
            <<"i", "n", "t", "e", "r", "m", "e", "d", "i", "a", "t", "e">>,
            <<"2", "-", "3", " ", "y", "e", "a", "r", "s">>,
            <<"3", "-", "5", " ", "y", "e", "a", "r", "s">>,
            <<"e", "x", "p", "e", "r", "i", "e", "n", "c", "e", "d">>}],
      [title |-> <<"S", "e", "n", "i", "o", "r", " ", "L", "e", "v", "e", "l">>,
       patterns |->
           {<<"s", "e", "n", "i", "o", "r">>,
            <<"l", "e", "a", "d">>,
            <<"p", "r", "i", "n", "c", "i", "p", "a", "l">>,
            <<"a", "r", "c", "h", "i", "t", "e", "c", "t">>,
            <<"5", "+", " ", "y", "e", "a", "r", "s">>,
            <<"7", "+", " ", "y", "e", "a", "r", "s">>,
            <<"1", "0", "+", " ", "y", "e", "a", "r", "s">>}]>>

\* _initialize_job_type_patterns, in the order of the dict; title is
\* job_type.replace('_', ' ').title().
job_type_patterns ==
    <<[title |-> <<"F", "u", "l", "l", " ", "T", "i", "m", "e">>,
       patterns |->
           {<<"f", "u", "l", "l", " ", "t", "i", "m", "e">>,
            <<"f", "u", "l", "l", "-", "t", "i", "m", "e">>,
            <<"p", "e", "r", "m", "a", "n", "e", "n", "t">>,
            <<"r", "e", "g", "u", "l", "a", "r">>}],
      [title |-> <<"P", "a", "r", "t", " ", "T", "i", "m", "e">>,
       patterns |->
           {<<"p", "a", "r", "t", " ", "t", "i", "m", "e">>,
            <<"p", "a", "r", "t", "-", "t", "i", "m", "e">>,
            <<"c", "o", "n", "t", "r", "a", "c", "t">>,
            <<"t", "e", "m", "p", "o", "r", "a", "r", "y">>}],
      [title |-> <<"R", "e", "m", "o", "t", "e">>,
       patterns |->
           {<<"r", "e", "m", "o", "t", "e">>,
            <<"w", "o", "r", "k", " ", "f", "r", "o", "m", " ", "h", "o", "m", "e">>,
            <<"w", "f", "h">>,
            <<"v", "i", "r", "t", "u", "a", "l">>,
            <<"o", "n", "l", "i", "n", "e">>}],
      [title |-> <<"I", "n", "t", "e", "r", "n", "s", "h", "i", "p">>,
       patterns |->
           {<<"i", "n", "t", "e", "r", "n", "s", "h", "i", "p">>,
            <<"i", "n", "t", "e", "r", "n">>,
            <<"t", "r", "a", "i", "n", "e", "e">>,
            <<"a", "p", "p", "r", "e", "n", "t", "i", "c", "e">>}]>>

\* normalizations of _normalize_location, in the order of the dict.
normalizations ==
    <<[key |-> <<"d", "h", "a", "k", "a">>,
       value |-> <<"D", "h", "a", "k", "a", ",", " ", "B", "a", "n", "g", "l", "a",
                  "d", "e", "s", "h">>],
      [key |-> <<"c", "h", "i", "t", "t", "a", "g", "o", "n", "g">>,
       value |-> <<"C", "h", "i", "t", "t", "a", "g", "o", "n", "g", ",", " ", "B",
                  "a", "n", "g", "l", "a", "d", "e", "s", "h">>],
      [key |-> <<"s", "y", "l", "h", "e", "t">>,
       value |-> <<"S", "y", "l", "h", "e", "t", ",", " ", "B", "a", "n", "g", "l",
                  "a", "d", "e", "s", "h">>],
      [key |-> <<"r", "e", "m", "o", "t", "e">>,
       value |-> <<"R", "e", "m", "o", "t", "e">>],
      [key |-> <<"b", "a", "n", "g", "l", "a", "d", "e", "s", "h">>,
       value |-> <<"B", "a", "n", "g", "l", "a", "d", "e", "s", "h">>]>>

\* The words of requirement_patterns of _extract_requirements, in their order; an
\* optional "s" follows the first, the second and the fourth.
requirement_patterns ==
    <<[word |-> <<"r", "e", "q", "u", "i", "r", "e", "m", "e", "n", "t">>, plural |-> TRUE],
      [word |-> <<"q", "u", "a", "l", "i", "f", "i", "c", "a", "t", "i", "o", "n">>, plural |-> TRUE],
      [word |-> <<"e", "x", "p", "e", "r", "i", "e", "n", "c", "e">>, plural |-> FALSE],
      [word |-> <<"s", "k", "i", "l", "l">>, plural |-> TRUE]>>

\* f"{title} {summary} {requirements}".lower() of a listing.
EnrichText(job) ==
    Lower(GetText(job, "title") \o <<" ">> \o GetText(job, "summary") \o <<" ">>
          \o GetText(job, "requirements"))

\* _extract_skills(job): the lists list(skills)[:10] can be. Nothing stands in
\* for the skills when no pattern is found in the text: the list is empty.
ExtractSkills(job) ==
    LET text == EnrichText(job)
        skills == {skill \in skill_patterns : Contains(text, skill)}
    IN  IF Cardinality(skills) <= 10 THEN {skills}
        ELSE {some \in SUBSET skills : Cardinality(some) = 10}

\* The title of the first level of patterns with a pattern in text, "Not
\* specified" when there is none.
RECURSIVE FirstLevelIn(_, _, _)
FirstLevelIn(patterns, k, text) ==
    IF k > Len(patterns) THEN TextNotSpecified
    ELSE IF \E pattern \in patterns[k].patterns : Contains(text, pattern)
         THEN patterns[k].title
         ELSE FirstLevelIn(patterns, k + 1, text)

\* _determine_experience_level(job).
DetermineExperienceLevel(job) == FirstLevelIn(experience_patterns, 1, EnrichText(job))

\* _determine_job_type(job): over f"{title} {summary}".lower().
DetermineJobType(job) == FirstLevelIn(job_type_patterns, 1, SpamText(job))

\* The loop of _normalize_location from the k-th normalization on.
RECURSIVE NormalizeFrom(_, _)
NormalizeFrom(location, k) ==
    IF k > Len(normalizations) THEN location
    ELSE IF /\ Contains(Lower(location), normalizations[k].key)
            /\ ~Contains(location, normalizations[k].value)
         THEN normalizations[k].value
         ELSE NormalizeFrom(location, k + 1)

\* _normalize_location(location).
NormalizeLocation(location) ==
    IF location = <<>> THEN TextNotSpecified ELSE NormalizeFrom(Strip(location), 1)

\* [:\s] of the requirement patterns.
IsSeparator(c) == c = ":" \/ IsSpace(c)

\* The match of word, an optional "s" (if plural), [:\s]+ and ([^.]+) at place
\* p of text, letters compared without their case: None, or the first and the
\* last place of the group. The separators are taken greedily and the last
\* of them is given back to the group when a "." or the end follows them.
RequirementMatchAt(text, p, pattern) ==
    IF ~StartsWithAt(Lower(text), p, pattern.word) THEN None
    ELSE LET n == Len(text)
             q0 == p + Len(pattern.word)
             q == IF pattern.plural /\ q0 <= n /\ LowerChar(text[q0]) = "s"
                  THEN q0 + 1 ELSE q0
             e == CHOOSE i \in q..(n + 1) :
                      /\ \A j \in q..(i - 1) : IsSeparator(text[j])
                      /\ i = n + 1 \/ ~IsSeparator(text[i])
             stop(from) == CHOOSE i \in from..(n + 1) :
                               /\ \A j \in from..(i - 1) : text[j] # "."
                               /\ i = n + 1 \/ text[i] = "."
         IN  IF e = q THEN None
             ELSE IF e <= n /\ text[e] # "." THEN Some([first |-> e, last |-> stop(e) - 1])
             ELSE IF e - q >= 2 THEN Some([first |-> e - 1, last |-> e - 1])
             ELSE None

\* re.findall(pattern, text, re.IGNORECASE) from place p on, every group
\* stripped: the matches from left to right, none overlapping another.
RECURSIVE FindAllRequirements(_, _, _)
FindAllRequirements(text, p, pattern) ==
    IF p > Len(text) THEN <<>>
    ELSE LET found == RequirementMatchAt(text, p, pattern)
         IN  IF found = None THEN FindAllRequirements(text, p + 1, pattern)
             ELSE <<Strip(SubSeq(text, found[1].first, found[1].last))>>
                  \o FindAllRequirements(text, found[1].last + 1, pattern)

\* _extract_requirements(job): the first five matches, the patterns in their
\* order; an empty list when there is none.
ExtractRequirements(job) ==
    LET text == GetText(job, "summary")
        all == FindAllRequirements(text, 1, requirement_patterns[1])
               \o FindAllRequirements(text, 1, requirement_patterns[2])
               \o FindAllRequirements(text, 1, requirement_patterns[3])
               \o FindAllRequirements(text, 1, requirement_patterns[4])
    IN  SubSeq(all, 1, Min(5, Len(all)))

\* _calculate_confidence_score(job) of an enriched listing, in hundredths.
\* experience_level and job_type are never empty once enriched.
CalculateConfidenceScore(job, location, skills, requirements) ==
    LET required == Cardinality({f \in {"title", "company", "summary"} :
                                    HasText(job, f)})
                    + (IF location # <<>> THEN 1 ELSE 0)
        optional == Cardinality({f \in {"url", "salary"} : HasText(job, f)})
                    + (IF requirements # <<>> THEN 1 ELSE 0)
                    + (IF skills # {} THEN 1 ELSE 0)
                    + 2
    IN  Min(100, 15 * required + 5 * optional
                 + Penalty(Len(GetText(job, "summary")) > 100, 10)
                 + Penalty(skills # {}, 5))

\* One listing as enrich_jobs leaves it, for a list of skills list(skills)[:10]
\* can be and the validation_metadata the listing holds. The model's listings
\* hold no skills, experience_level or job_type.
EnrichJob(job, validation_metadata, skills) ==
    LET location == NormalizeLocation(GetText(job, "location"))
        requirements == IF HasText(job, "requirements") THEN GetText(job, "requirements")
                        ELSE ExtractRequirements(job)
    IN  [title |-> job.title, company |-> job.company, summary |-> job.summary,
         url |-> job.url, salary |-> job.salary, source |-> job.source,
         validation_metadata |-> validation_metadata,
         skills |-> skills,
         experience_level |-> DetermineExperienceLevel(job),
         job_type |-> DetermineJobType(job),
         location |-> location,
         requirements |-> requirements,
         confidence_score |->
             CalculateConfidenceScore(job, location, skills, requirements)]

(***************************************************************************)
(* QualityAssuranceLayer.                                                  *)
(***************************************************************************)
\* validate_job of every listing handed to process_jobs at every level, computed
\* once, and validator.validate_job(job) looked up in it.
PoolValidation ==
    [validation_level \in ValidationLevels |->
        [job \in Range(QaPool) |-> ValidateJob(job, validation_level)]]

ValidationOf(job, validation_level) ==
    IF job \in Range(QaPool) THEN PoolValidation[validation_level][job]
    ELSE ValidateJob(job, validation_level)

\* The validation_metadata _validate_jobs writes into a listing it lets through.
ValidationMetadata(job, validation_level) ==
    LET result(validation_result) ==
            [quality_score |-> validation_result.quality_score,
             quality_level |-> validation_result.quality_level,
             warnings |-> validation_result.warnings,
             suggestions |-> validation_result.suggestions]
    IN  Bind(ValidationOf(job, validation_level), result)

\* A filter that lets every listing through.
PassedOnWhateverScore(job, validation_level) ==
    ValidationOf(job, validation_level).quality_score >= 0

\* Whether _validate_jobs lets a listing through: quality_score >= 0.3, at
\* every level of the validator.
PassedOn(job, validation_level) ==
    ValidationOf(job, validation_level).quality_score >= 30

\* _validate_jobs(jobs).
ValidateJobs(jobs, validation_level) ==
    SelectSeq(jobs, LAMBDA job : PassedOn(job, validation_level))

\* What enrich_jobs can make of every listing handed to process_jobs, at every
\* level of the layer, computed once.
PoolEnriched ==
    [validation_level \in ValidationLevels |->
        [job \in Range(QaPool) |->
            {EnrichJob(job, ValidationMetadata(job, validation_level), skills) :
                skills \in ExtractSkills(job)}]]

\* enrich_jobs(jobs) of the layer's listings: the lists it can return.
EnrichJobs(jobs, validation_level) ==
    LET n == Len(jobs)
        enriched == UNION {PoolEnriched[validation_level][jobs[k]] : k \in 1..n}
    IN  {list \in [1..n -> enriched] :
            \A k \in 1..n : list[k] \in PoolEnriched[validation_level][jobs[k]]}

\* qa_stats of a new layer.
QaStatsInit ==
    [total_jobs_processed |-> 0, valid_jobs |-> 0, invalid_jobs |-> 0,
     duplicates_removed |-> 0, enriched_jobs |-> 0,
     quality_distribution |-> [l \in {"excellent", "good", "fair", "poor", "invalid"} |-> 0]]

\* _update_statistics(original_jobs, validated_jobs, deduplication_result,
\* enriched_jobs). A level the defaultdict does not hold counts as zero.
UpdateStatistics(stats, original_jobs, validated_jobs, deduplication_result, enriched_jobs) ==
    [total_jobs_processed |-> Len(original_jobs),
     valid_jobs |-> Len(validated_jobs),
     invalid_jobs |-> Len(original_jobs) - Len(validated_jobs),
     duplicates_removed |-> deduplication_result.duplicates_removed,
     enriched_jobs |-> Len(enriched_jobs),
     quality_distribution |->
         [l \in DOMAIN stats.quality_distribution |->
             stats.quality_distribution[l]
             + Cardinality({k \in 1..Len(enriched_jobs) :
                               enriched_jobs[k].validation_metadata.quality_level = l})]]

(***************************************************************************)
(* The source catalog: IntelligentSourceRouter._initialize_sources.        *)
(***************************************************************************)
\* The keys of available_sources in insertion order (dict iteration order).
CatalogOrder ==
    <<"api_linkedin", "api_indeed", "scraper_bdjobs", "scraper_linkedin",
      "scraper_skilljobs", "scraper_shomvob", "web_search">>

CatalogIds == Range(CatalogOrder)

\* priority in tenths; type; enabled.
available_sources ==
    [s \in CatalogIds |->
        CASE s = "api_linkedin"      -> [type |-> "api", priority |-> 10, enabled |-> TRUE]
          [] s = "api_indeed"        -> [type |-> "api", priority |-> 9, enabled |-> TRUE]
          [] s = "scraper_bdjobs"    -> [type |-> "scraper", priority |-> 8, enabled |-> TRUE]
          [] s = "scraper_linkedin"  -> [type |-> "scraper", priority |-> 8, enabled |-> TRUE]
          [] s = "scraper_skilljobs" -> [type |-> "scraper", priority |-> 7, enabled |-> TRUE]
          [] s = "scraper_shomvob"   -> [type |-> "scraper", priority |-> 6, enabled |-> TRUE]
          [] s = "web_search"        -> [type |-> "web_search", priority |-> 5, enabled |-> TRUE]]

\* A source id no catalog entry has.
UnregisteredId == "unregistered_source"

\* The ids outcomes are recorded for: two catalog sources and an unregistered id.
RecordIds == {"api_linkedin", "scraper_bdjobs", UnregisteredId}

\* Every id the tracker's dictionaries are indexed by in the model.
TrackedIds == CatalogIds \cup RecordIds

(***************************************************************************)
(* PerformanceTracker.                                                     *)
(***************************************************************************)
\* PerformanceTracker.__init__(history_size=100): the deque's maxlen.
history_size == 100

\* deque(maxlen=history_size).append: the oldest entry leaves a full window.
DequeAppend(window, entry) ==
    IF Len(window) >= history_size
    THEN Tail(window) \o <<entry>>
    ELSE window \o <<entry>>

\* The fields of the dataclass SourcePerformance that have no default.
SourcePerformanceRequired == {"source_id", "source_type"}

\* The defaults of the dataclass SourcePerformance.
SourcePerformanceDefaults ==
    [success_rate |-> <<0, 1>>, avg_response_time |-> <<0, 1>>,
     avg_jobs_found |-> <<0, 1>>, failure_count |-> 0, total_requests |-> 0,
     is_available |-> TRUE, priority_score |-> <<0, 1>>]

\* SourcePerformance(**kwargs): the generated __init__ raises TypeError when a
\* field without a default is not given; otherwise the record, defaults filled in.
SourcePerformanceInit(kwargs) ==
    IF SourcePerformanceRequired \subseteq DOMAIN kwargs
    THEN [ok |-> TRUE, value |-> Some(kwargs @@ SourcePerformanceDefaults)]
    ELSE [ok |-> FALSE, value |-> None]

Successes(window) == Cardinality({i \in 1..Len(window) : window[i].success})

\* _calculate_priority_score as the ratio <<n, d>> with d = 600 * total:
\* 0.5*success_rate + 0.3*max(0, 1 - rt/30) + 0.2*min(1, jobs/20), where
\* success_rate = S/T, rt = R/T and jobs = J/T.
CalculatePriorityScore(S, R, J, T) ==
    <<300 * S + 6 * Max(0, 30 * T - R) + 6 * Min(20 * T, J), 600 * T>>

\* The keyword arguments _update_metrics passes to SourcePerformance.
MetricsKwargs(source_id, window) ==
    LET total_requests == Len(window)
        successful_requests == Successes(window)
        R == SumResponseTime(window)
        J == SumJobsFound(window)
    IN  [source_id |-> source_id,
         success_rate |-> <<successful_requests, total_requests>>,
         avg_response_time |-> <<R, total_requests>>,
         avg_jobs_found |-> <<J, total_requests>>,
         failure_count |-> total_requests - successful_requests,
         total_requests |-> total_requests,
         \* success_rate > 0.3
         is_available |-> 10 * successful_requests > 3 * total_requests,
         priority_score |->
             CalculatePriorityScore(successful_requests, R, J, total_requests)]

\* _update_metrics on the tracker <<history, metrics>>: the metrics after the call
\* and the exception it raised.
UpdateMetrics(history, metrics, source_id) ==
    LET window == history[source_id]
        made == SourcePerformanceInit(MetricsKwargs(source_id, window))
    IN  IF window = <<>> THEN [metrics |-> metrics, raised |-> "none"]
        ELSE IF made.ok
             THEN [metrics |-> [metrics EXCEPT ![source_id] = made.value],
                   raised |-> "none"]
             ELSE [metrics |-> metrics, raised |-> "TypeError"]

\* record_request with one deque behind every key of performance_history.
RecordRequestStepShared(history, metrics, source_id, success, response_time, jobs_found) ==
    LET result == [success |-> success, response_time |-> response_time,
                   jobs_found |-> jobs_found]
        history2 == [s \in DOMAIN history |-> DequeAppend(history[s], result)]
        updated == UpdateMetrics(history2, metrics, source_id)
    IN  [history |-> history2, metrics |-> updated.metrics, raised |-> updated.raised]

\* record_request: append to the window, then _update_metrics, all under the lock
\* (the with statement releases it when the exception leaves the block).
RecordRequestStep(history, metrics, source_id, success, response_time, jobs_found) ==
    LET result == [success |-> success, response_time |-> response_time,
                   jobs_found |-> jobs_found]
        history2 == [history EXCEPT ![source_id] = DequeAppend(@, result)]
        updated == UpdateMetrics(history2, metrics, source_id)
    IN  [history |-> history2, metrics |-> updated.metrics, raised |-> updated.raised]

\* get_source_metrics: source_metrics.get(source_id).
GetSourceMetrics(metrics, source_id) ==
    IF source_id \in DOMAIN metrics THEN metrics[source_id] ELSE None

(***************************************************************************)
(* QueryAnalyzer.                                                          *)
(***************************************************************************)
QueryTypes ==
    {"general_job_search", "company_specific", "skill_based", "location_specific",
     "experience_level", "remote_work", "salary_range", "recent_postings"}

\* The parsed queries of the model: each field missing (None) or holding one of a
\* few values, the falsy value of its type among them.
ParsedQueries ==
    [company: {None, Some(""), Some("Google")},
     skills: {None, Some(<<>>), Some(<<"python">>)},
     location: {None, Some(""), Some("bangladesh"), Some("Bangladesh"), Some("Dhaka")},
     remote: {None, Some(FALSE), Some(TRUE)},
     salary_range: {None, Some(""), Some("above 50k")},
     experience_level: {None, Some(""), Some("senior")},
     job_type: {None, Some("recent"), Some("developer")}]

\* str.lower() on the location strings of the model.
LowerStr(s) ==
    CASE s = "Bangladesh" -> "bangladesh"
      [] s = "Dhaka" -> "dhaka"
      [] OTHER -> s

\* Python truthiness of d.get(k): None and the falsy value of the type are false.
Truthy(opt, falsy) == opt # None /\ opt[1] # falsy

\* A classifier that looks at the skills before the company.
ClassifyQuerySkillsFirst(pd) ==
    IF Truthy(pd.skills, <<>>) THEN "skill_based"
    ELSE IF Truthy(pd.company, "") THEN "company_specific"
    ELSE IF Truthy(pd.location, "") /\ LowerStr(pd.location[1]) # "bangladesh"
         THEN "location_specific"
    ELSE IF Truthy(pd.remote, FALSE) THEN "remote_work"
    ELSE IF Truthy(pd.salary_range, "") THEN "salary_range"
    ELSE IF Truthy(pd.experience_level, "") THEN "experience_level"
    ELSE IF pd.job_type = Some("recent") THEN "recent_postings"
    ELSE "general_job_search"

\* QueryAnalyzer.classify_query: the first condition that holds decides.
ClassifyQuery(pd) ==
    IF Truthy(pd.company, "") THEN "company_specific"
    ELSE IF Truthy(pd.skills, <<>>) THEN "skill_based"
    ELSE IF Truthy(pd.location, "") /\ LowerStr(pd.location[1]) # "bangladesh"
         THEN "location_specific"
    ELSE IF Truthy(pd.remote, FALSE) THEN "remote_work"
    ELSE IF Truthy(pd.salary_range, "") THEN "salary_range"
    ELSE IF Truthy(pd.experience_level, "") THEN "experience_level"
    ELSE IF pd.job_type = Some("recent") THEN "recent_postings"
    ELSE "general_job_search"

\* QueryAnalyzer._initialize_query_profiles.
query_profiles ==
    [general_job_search |->
        [preferred_sources |-> <<"scraper_bdjobs", "scraper_linkedin", "web_search",
                                 "api_linkedin", "api_indeed">>,
         min_sources |-> 2, max_sources |-> 4],
     company_specific |->
        [preferred_sources |-> <<"scraper_bdjobs", "scraper_linkedin", "api_linkedin",
                                 "web_search">>,
         min_sources |-> 2, max_sources |-> 3],
     skill_based |->
        [preferred_sources |-> <<"scraper_bdjobs", "scraper_linkedin",
                                 "scraper_skilljobs", "web_search", "api_linkedin">>,
         min_sources |-> 2, max_sources |-> 4],
     location_specific |->
        [preferred_sources |-> <<"scraper_bdjobs", "scraper_skilljobs", "web_search">>,
         min_sources |-> 2, max_sources |-> 3],
     remote_work |->
        [preferred_sources |-> <<"api_linkedin", "web_search", "api_indeed">>,
         min_sources |-> 2, max_sources |-> 4],
     recent_postings |->
        [preferred_sources |-> <<"scraper_bdjobs", "scraper_skilljobs", "web_search">>,
         min_sources |-> 2, max_sources |-> 3]]

\* A lookup that raises KeyError for a type without a profile.
GetQueryProfileNoDefault(qt) ==
    IF qt \in DOMAIN query_profiles THEN Returned(query_profiles[qt])
    ELSE Raised("KeyError")

\* QueryAnalyzer.get_query_profile: query_profiles.get(query_type, the general
\* profile), the default being looked up by subscript before the call.
GetQueryProfile(qt) ==
    IF "general_job_search" \notin DOMAIN query_profiles THEN Raised("KeyError")
    ELSE IF qt \in DOMAIN query_profiles THEN Returned(query_profiles[qt])
    ELSE Returned(query_profiles["general_job_search"])

(***************************************************************************)
(* IntelligentSourceRouter.                                                *)
(***************************************************************************)
\* A filter that keeps only the sources with a metrics record saying available.
GetAvailableSourcesRecordedOnly(metrics) ==
    LET keep(s) == /\ available_sources[s].enabled
                   /\ GetSourceMetrics(metrics, s) # None
                   /\ GetSourceMetrics(metrics, s)[1].is_available
    IN  SelectSeq(CatalogOrder, keep)

\* _get_available_sources: the enabled catalog sources, in catalog order, whose
\* metrics record, if there is one, does not say unavailable.
GetAvailableSources(metrics) ==
    LET keep(s) == /\ available_sources[s].enabled
                   /\ ~(GetSourceMetrics(metrics, s) # None
                        /\ ~GetSourceMetrics(metrics, s)[1].is_available)
    IN  SelectSeq(CatalogOrder, keep)

\* A filter that leaves the sources in the order it is given them.
FilterByPreferencesUnsorted(sources, preferred_sources) == sources

\* _filter_by_preferences: a stable sort by the position in preferred_sources,
\* the sources it does not list last.
FilterByPreferences(sources, preferred_sources) ==
    IF preferred_sources = <<>> THEN sources
    ELSE LET sortedBy(preference_key) ==
                 LET before(a, b) == preference_key[a] < preference_key[b]
                 IN  SortedStable(sources, before)
         IN  CHOOSE r \in {sortedBy(k) : k \in
                 {[s \in Range(sources) |-> IndexOf(preferred_sources, s)]}} : TRUE

\* _get_query_type_boost, in tenths.
GetQueryTypeBoost(s, qt) ==
    CASE qt = "company_specific" ->
            (CASE s = "api_linkedin" -> 2 [] s = "api_indeed" -> 1
               [] s = "web_search" -> 1 [] OTHER -> 0)
      [] qt = "location_specific" ->
            (CASE s = "scraper_bdjobs" -> 2 [] s = "scraper_skilljobs" -> 2
               [] s = "scraper_shomvob" -> 1 [] OTHER -> 0)
      [] qt = "skill_based" ->
            (CASE s = "web_search" -> 2 [] s = "api_linkedin" -> 1
               [] s = "scraper_skilljobs" -> 1 [] OTHER -> 0)
      [] qt = "remote_work" ->
            (CASE s = "api_linkedin" -> 2 [] s = "api_indeed" -> 1
               [] s = "web_search" -> 1 [] OTHER -> 0)
      [] OTHER -> 0

\* The rounding of the double-precision sum base/10 + 0.0 + boost/10, in units in
\* the last place against the double nearest (base + boost)/10: of the sums the
\* catalog's priorities and the boosts form, 0.7 + 0.1 = 0.7999999999999999 and
\* 0.7 + 0.2 = 0.8999999999999999 fall one unit short, the others are exact.
FloatSumUlp(base, boost) ==
    IF base = 7 /\ boost \in {1, 2} THEN -1 ELSE 0

\* rank_key of _rank_sources: base_priority + performance_boost + query_boost as
\* the ratio num/den plus ulp units in the last place; performance_boost is
\* 0.3 * priority_score when the source has a metrics record and 0.0 otherwise.
RankKey(s, qt, metrics) ==
    LET base == available_sources[s].priority
        boost == GetQueryTypeBoost(s, qt)
        m == GetSourceMetrics(metrics, s)
    IN  IF m = None
        THEN [num |-> base + boost, den |-> 10, ulp |-> FloatSumUlp(base, boost)]
        ELSE [num |-> (base + boost) * m[1].priority_score[2]
                      + 3 * m[1].priority_score[1],
              den |-> 10 * m[1].priority_score[2], ulp |-> 0]

\* a > b on rank keys.
KeyGreater(a, b) ==
    \/ a.num * b.den > b.num * a.den
    \/ (a.num * b.den = b.num * a.den /\ a.ulp > b.ulp)

\* A ranking that leaves the sources in the order it is given them.
RankSourcesUnsorted(sources, qt, metrics) == sources

\* _rank_sources: sorted(sources, key=rank_key, reverse=True), which is stable.
RankSources(sources, qt, metrics) ==
    LET sortedBy(rank_key) ==
            LET before(a, b) == KeyGreater(rank_key[a], rank_key[b])
            IN  SortedStable(sources, before)
    IN  CHOOSE r \in {sortedBy(k) : k \in
            {[s \in Range(sources) |-> RankKey(s, qt, metrics)]}} : TRUE

\* ranked[:n] of a Python list: a negative n counts from the end.
Slice(s, n) ==
    IF n >= 0 THEN SubSeq(s, 1, Min(n, Len(s)))
    ELSE SubSeq(s, 1, Max(0, Len(s) + n))

\* A cut that never extends the number of sources to the profile's min_sources.
SelectOptimalSourcesNoMinimum(ranked_sources, profile, maxSources) ==
    Slice(ranked_sources,
          Min(Min(maxSources, profile.max_sources), Len(ranked_sources)))

\* _select_optimal_sources.
SelectOptimalSources(ranked_sources, profile, maxSources) ==
    LET n0 == Min(Min(maxSources, profile.max_sources), Len(ranked_sources))
        num_sources ==
            IF n0 < profile.min_sources /\ Len(ranked_sources) >= profile.min_sources
            THEN profile.min_sources ELSE n0
    IN  Slice(ranked_sources, num_sources)

\* select_sources: classify, filter, order by preference, rank, cut.
SelectSourcesResult(pd, maxSources, metrics) ==
    LET qt == ClassifyQuery(pd)
        got == GetQueryProfile(qt)
        profile == got.value[1]
        available == GetAvailableSources(metrics)
        preferred == FilterByPreferences(available, profile.preferred_sources)
        ranked == RankSources(preferred, qt, metrics)
    IN  IF got.raised # "none" THEN Raised(got.raised)
        ELSE Returned(SelectOptimalSources(ranked, profile, maxSources))

\* _update_source_availability: the adaptive circuit breaker on the stored record.
UpdateSourceAvailability(metrics, source_id) ==
    LET m == GetSourceMetrics(metrics, source_id)
    IN  IF m # None /\ m[1].failure_count >= 5
           /\ 10 * m[1].success_rate[1] < 2 * m[1].success_rate[2]
        THEN [metrics EXCEPT ![source_id] = Some([m[1] EXCEPT !.is_available = FALSE])]
        ELSE metrics

\* IntelligentSourceRouter.adaptive_learning, set in __init__ and never changed.
adaptive_learning == TRUE

(***************************************************************************)
(* AdvancedWebSearchEngine. A relevance is kept in hundredths.             *)
(***************************************************************************)
\* SearchEngine, by the values of its members.
SearchEngines == {"google", "bing", "duckduckgo", "yahoo"}

\* The engines AdvancedWebSearchEngine.adapters holds an adapter for.
adapters == {"google", "bing", "duckduckgo"}

engine_priority == <<"duckduckgo", "bing", "google">>

max_concurrent_searches == 2

fallback_enabled == TRUE

\* url.lower().rstrip('/').
NormalizedUrl(url) ==
    LET lower == Lower(url)
        kept == {i \in 1..Len(lower) : lower[i] # "/"}
    IN  IF kept = {} THEN <<>>
        ELSE SubSeq(lower, 1, CHOOSE i \in kept : \A j \in kept : j <= i)

\* _deduplicate_results(results): the first result of every normalized url.
DeduplicateResults(results) ==
    LET first(k) == \A j \in 1..(k - 1) :
                        NormalizedUrl(results[j].url) # NormalizedUrl(results[k].url)
    IN  Pick(results, {k \in 1..Len(results) : first(k)})

\* calculate_relevance(result) of _sort_results_by_relevance, for the terms of
\* the query found in the title and in the snippet.
CalculateRelevance(result) ==
    (3 * result.title_matches + result.snippet_matches)
        * (CASE result.engine = "google" -> 120
             [] result.engine = "bing" -> 110
             [] OTHER -> 100)
    - 10 * result.rank

\* _sort_results_by_relevance(results, query): sorted(..., reverse=True).
SortResultsByRelevance(results) ==
    SortedStable(results,
                 LAMBDA a, b : CalculateRelevance(a) > CalculateRelevance(b))

\* What search returns for the results it gathered.
SearchReturns(results, n) ==
    Slice(SortResultsByRelevance(DeduplicateResults(results)), n)

\* The futures _search_single_engine is running: the workers take the
\* submitted calls in their order, max_concurrent_searches at a time.
Running(futures) ==
    LET waiting == {k \in 1..Len(futures) : ~futures[k].done}
    IN  {k \in waiting :
            Cardinality({j \in waiting : j < k}) < max_concurrent_searches}

\* RateLimiter.base_delay and max_delay, in half seconds, and backoff_multiplier.
base_delay == 2
max_delay == 60
backoff_multiplier == 2

\* The values of random.uniform(0.5, 1.5) the model draws, in halves: the two
\* ends and the middle.
JitterDraws == {1, 2, 3}

\* RateLimiter.should_wait(engine) at the time now and for a draw of the jitter:
\* min(base_delay * backoff_multiplier ** failures, max_delay) * jitter, less the
\* time since the engine's last request, and never below 0.
ShouldWait(times, counts, engine, now, jitter) ==
    LET failures == counts[engine]
        delay == (Min(base_delay * (backoff_multiplier ^ failures), max_delay)
                  * jitter) \div 2
    IN  Max(0, delay - (now - times[engine]))

\* RateLimiter.record_request(engine, success) as _make_request calls it for the
\* outcome of a request.
RecordEngineRequest(counts, engine, outcome) ==
    IF outcome = "failed" THEN [counts EXCEPT ![engine] = @ + 1]
    ELSE [counts EXCEPT ![engine] = 0]

(***************************************************************************)
(* The router as a state machine.                                          *)
(***************************************************************************)
\* The outcomes a caller reports: a success, and a failure with a negative time.
OutcomeInputs ==
    {[success |-> TRUE, response_time |-> 2, jobs_found |-> 8],
     [success |-> FALSE, response_time |-> -1, jobs_found |-> 0]}

\* IntelligentSourceRouter.select_sources(parsed_data, max_sources=5).
DefaultMaxSources == 5

MaxSourcesInputs == (-1..MaxSourcesArg) \cup {DefaultMaxSources}

NoQuery ==
    [company |-> None, skills |-> None, location |-> None, remote |-> None,
     salary_range |-> None, experience_level |-> None, job_type |-> None]

\* The queries the router is asked in the model: every query type is among them.
RouterQueries ==
    {NoQuery,
     [NoQuery EXCEPT !.company = Some("Google")],
     [NoQuery EXCEPT !.company = Some("Google"), !.skills = Some(<<"python">>)],
     [NoQuery EXCEPT !.skills = Some(<<"python">>), !.remote = Some(TRUE)],
     [NoQuery EXCEPT !.location = Some("Dhaka")],
     [NoQuery EXCEPT !.location = Some("Bangladesh")],
     [NoQuery EXCEPT !.remote = Some(TRUE)],
     [NoQuery EXCEPT !.salary_range = Some("above 50k")],
     [NoQuery EXCEPT !.experience_level = Some("senior")],
     [NoQuery EXCEPT !.job_type = Some("recent")]}

RECURSIVE TotalRecordedIn(_, _)
TotalRecordedIn(history, ids) ==
    IF ids = {} THEN 0
    ELSE LET s == CHOOSE x \in ids : TRUE
         IN  Len(history[s]) + TotalRecordedIn(history, ids \ {s})

\* The number of outcomes recorded so far (no window of the model is full).
TotalRecorded == TotalRecordedIn(performance_history, TrackedIds)

\* A router and its tracker after construction, no call made.
RouterIdle ==
    /\ performance_history = [s \in TrackedIds |-> <<>>]
    /\ source_metrics = [s \in TrackedIds |-> None]
    /\ parsed_data = None
    /\ max_sources = DefaultMaxSources
    /\ query_type = None
    /\ selected = None

\* A deduplicator after construction, no call made.
DeduplicatorIdle ==
    /\ handed_jobs = <<>>
    /\ deduplication = None
    /\ deduplication_stats = InitialDeduplicationStats
    /\ previous_deduplication = None

\* A validator after construction (of the default level), no call made.
ValidatorIdle ==
    /\ handed_job = None
    /\ level_of_validator = "lenient"
    /\ validation = None
    /\ previous_validation = None
    /\ filled_field = None

QaIdle ==
    /\ qa_level = "moderate"
    /\ qa_jobs = <<>>
    /\ qa_validated = <<>>
    /\ qa_deduplication = None
    /\ qa_enriched = None
    /\ qa_stats = QaStatsInit
    /\ qa_deduplication_stats = InitialDeduplicationStats
    /\ qa_runs = 0

SearchIdle ==
    /\ search_pc = "idle"
    /\ num_results = 10
    /\ future_to_engine = <<>>
    /\ yielded = {}
    /\ all_results = <<>>
    /\ successful_engines = <<>>
    /\ remaining_engines = <<>>
    /\ fallback_engines = <<>>
    /\ search_result = None
    /\ failure_counts = [engine \in SearchEngines |-> 0]

\* No thread but the caller's: nobody is in record_request.
ThreadsIdle ==
    /\ thread_call = <<>>
    /\ thread_pc = <<>>
    /\ thread_raised = <<>>
    /\ lock = None

\* A rate limiter no request has gone through.
LimiterIdle ==
    /\ request_times = [engine \in SearchEngines |-> 0]
    /\ current_time = StartTime
    /\ wait_time = None
    /\ limiter_engine = None
    /\ limiter_requests = 0

LaterIdle == QaIdle /\ SearchIdle /\ ThreadsIdle /\ LimiterIdle

RouterInit ==
    /\ RouterIdle
    /\ DeduplicatorIdle
    /\ ValidatorIdle
    /\ LaterIdle
    /\ raised = "none"
    /\ last_call = "init"

\* The variables that hold the last call's arguments and result, after a call
\* that is no select_sources call.
NoSelection ==
    /\ parsed_data' = None
    /\ max_sources' = DefaultMaxSources
    /\ query_type' = None
    /\ selected' = None

\* PerformanceTracker.record_request called on the tracker.
RecordRequest(source_id, o) ==
    LET step == RecordRequestStep(performance_history, source_metrics, source_id,
                                  o.success, o.response_time, o.jobs_found)
    IN  /\ performance_history' = step.history
        /\ source_metrics' = step.metrics
        /\ raised' = step.raised
        /\ last_call' = "record_request"
        /\ NoSelection
        /\ UNCHANGED <<deduplicatorVars, validatorVars, laterVars>>

\* IntelligentSourceRouter.record_source_result: record_request, and when that
\* returned, _update_source_availability.
RecordSourceResult(source_id, o) ==
    LET step == RecordRequestStep(performance_history, source_metrics, source_id,
                                  o.success, o.response_time, o.jobs_found)
    IN  /\ performance_history' = step.history
        /\ source_metrics' =
              IF step.raised = "none" /\ adaptive_learning
              THEN UpdateSourceAvailability(step.metrics, source_id)
              ELSE step.metrics
        /\ raised' = step.raised
        /\ last_call' = "record_source_result"
        /\ NoSelection
        /\ UNCHANGED <<deduplicatorVars, validatorVars, laterVars>>

\* IntelligentSourceRouter.select_sources. It reads the tracker and changes
\* nothing, so a call made right after another returns what it would have returned
\* in that call's place: the model leaves the repeated call out.
SelectSources(pd, maxSources) ==
    /\ last_call # "select_sources"
    /\ parsed_data' = Some(pd)
    /\ max_sources' = maxSources
    /\ query_type' = Some(ClassifyQuery(pd))
    /\ \E r \in {SelectSourcesResult(pd, maxSources, source_metrics)} :
           selected' = r.value /\ raised' = r.raised
    /\ last_call' = "select_sources"
    /\ UNCHANGED <<performance_history, source_metrics, deduplicatorVars,
                   validatorVars, laterVars>>

RouterNext ==
    \/ /\ TotalRecorded < MaxRequests
       /\ \E s \in RecordIds, o \in OutcomeInputs : RecordSourceResult(s, o)
    \/ \E pd \in RouterQueries, m \in MaxSourcesInputs : SelectSources(pd, m)

\* A parsed query handed to the classifier.
ClassifyInit ==
    /\ performance_history = [s \in TrackedIds |-> <<>>]
    /\ source_metrics = [s \in TrackedIds |-> None]
    /\ parsed_data \in {Some(pd) : pd \in ParsedQueries}
    /\ max_sources = DefaultMaxSources
    /\ query_type = None
    /\ selected = None
    /\ DeduplicatorIdle
    /\ ValidatorIdle
    /\ LaterIdle
    /\ raised = "none"
    /\ last_call = "init"

\* QueryAnalyzer.classify_query(parsed_data).
Classify ==
    /\ last_call = "init"
    /\ query_type' = Some(ClassifyQuery(parsed_data[1]))
    /\ raised' = "none"
    /\ last_call' = "classify_query"
    /\ UNCHANGED <<performance_history, source_metrics, parsed_data, max_sources,
                   selected, deduplicatorVars, validatorVars, laterVars>>

ClassifyNext == Classify

TrackerNext ==
    /\ TotalRecorded < MaxTrackerRequests
    /\ \E s \in RecordIds, o \in OutcomeInputs : RecordRequest(s, o)

(***************************************************************************)
(* The deduplicator and the validator as state machines.                   *)
(***************************************************************************)
QaInit ==
    /\ RouterIdle
    /\ DeduplicatorIdle
    /\ ValidatorIdle
    /\ LaterIdle
    /\ raised = "none"
    /\ last_call = "init"

\* JobDeduplicator.deduplicate_jobs(list) on a new deduplicator.
Deduplicate(list) ==
    /\ last_call = "init"
    /\ \E result \in {DeduplicateJobs(list, deduplication_stats)} :
          /\ handed_jobs' = list
          /\ deduplication' = Some(result)
          /\ deduplication_stats' = result.deduplication_stats
          /\ previous_deduplication' = deduplication
    /\ raised' = "none"
    /\ last_call' = "deduplicate_jobs"
    /\ UNCHANGED <<routerVars, validatorVars, laterVars>>

\* deduplicate_jobs, by the same deduplicator, of the unique listings its last
\* call returned.
DeduplicateAgain ==
    /\ last_call = "deduplicate_jobs"
    /\ \E result \in {DeduplicateJobs(deduplication[1].unique_jobs,
                                       deduplication_stats)} :
          /\ handed_jobs' = deduplication[1].unique_jobs
          /\ deduplication' = Some(result)
          /\ deduplication_stats' = result.deduplication_stats
          /\ previous_deduplication' = deduplication
    /\ raised' = "none"
    /\ last_call' = "deduplicate_again"
    /\ UNCHANGED <<routerVars, validatorVars, laterVars>>

DedupNext ==
    \/ \E list \in JobLists : Deduplicate(list)
    \/ DeduplicateAgain

\* JobValidator(level).validate_job(listing) on a new validator.
Validate(listing, level) ==
    /\ last_call = "init"
    /\ handed_job' = Some(listing)
    /\ level_of_validator' = level
    /\ raised' = ValidateJobRaises(listing)
    /\ validation' = IF ValidateJobRaises(listing) = "none"
                      THEN Some(ValidateJob(listing, level)) ELSE None
    /\ previous_validation' = validation
    /\ filled_field' = None
    /\ last_call' = "validate_job"
    /\ UNCHANGED <<routerVars, deduplicatorVars, laterVars>>

\* validate_job, by the same validator, of the last listing with the absent
\* required field filled in with value and nothing else changed.
ValidateFilled(field, value) ==
    /\ last_call = "validate_job"
    /\ ~HasText(handed_job[1], field)
    /\ \E filled \in {[handed_job[1] EXCEPT ![field] = Some(value)]} :
          /\ handed_job' = Some(filled)
          /\ raised' = ValidateJobRaises(filled)
          /\ validation' = IF ValidateJobRaises(filled) = "none"
                            THEN Some(ValidateJob(filled, level_of_validator))
                            ELSE None
    /\ previous_validation' = validation
    /\ filled_field' = Some(field)
    /\ last_call' = "validate_filled"
    /\ UNCHANGED <<routerVars, deduplicatorVars, level_of_validator, laterVars>>

ValidateNext ==
    \/ \E listing \in ValidatorJobs, level \in ValidationLevels :
          Validate(listing, level)
    \/ \E field \in Range(required_fields) :
          \E value \in FillValues[field] : ValidateFilled(field, value)

(***************************************************************************)
(* The quality assurance layer as a state machine.                         *)
(***************************************************************************)
\* QualityAssuranceLayer(validation_level), and nothing else in use.
LayerInit ==
    /\ RouterIdle
    /\ DeduplicatorIdle
    /\ ValidatorIdle
    /\ qa_level \in ValidationLevels
    /\ qa_jobs = <<>>
    /\ qa_validated = <<>>
    /\ qa_deduplication = None
    /\ qa_enriched = None
    /\ qa_stats = QaStatsInit
    /\ qa_deduplication_stats = InitialDeduplicationStats
    /\ qa_runs = 0
    /\ SearchIdle
    /\ ThreadsIdle
    /\ LimiterIdle
    /\ raised = "none"
    /\ last_call = "init"

\* process_jobs(jobs) on the layer: [] for a list without a listing, the layer
\* left as it was; else _validate_jobs, deduplicate_jobs of the layer's
\* deduplicator, enrich_jobs and _update_statistics.
ProcessJobsCall(jobs) ==
    /\ qa_runs < MaxQaRuns
    /\ qa_jobs' = jobs
    /\ IF jobs = <<>>
       THEN /\ qa_validated' = <<>>
            /\ qa_deduplication' = None
            /\ qa_enriched' = Some(<<>>)
            /\ UNCHANGED <<qa_stats, qa_deduplication_stats>>
       ELSE \E validated_jobs \in {ValidateJobs(jobs, qa_level)} :
            \E deduplication_result \in
                   {DeduplicateJobs(validated_jobs, qa_deduplication_stats)} :
            \E enriched_jobs \in EnrichJobs(deduplication_result.unique_jobs, qa_level) :
               /\ qa_validated' = validated_jobs
               /\ qa_deduplication' = Some(deduplication_result)
               /\ qa_deduplication_stats' = deduplication_result.deduplication_stats
               /\ qa_enriched' = Some(enriched_jobs)
               /\ qa_stats' = UpdateStatistics(qa_stats, jobs, validated_jobs,
                                               deduplication_result, enriched_jobs)
    /\ qa_runs' = qa_runs + 1
    /\ raised' = "none"
    /\ last_call' = "process_jobs"
    /\ UNCHANGED <<routerVars, deduplicatorVars, validatorVars, qa_level, searchVars,
                   threadVars, limiterVars>>

\* The first process_jobs call on a layer.
ProcessJobs(jobs) == qa_runs = 0 /\ ProcessJobsCall(jobs)

\* process_jobs, by the same layer, of the list it was handed before.
ProcessJobsAgain == qa_runs > 0 /\ ProcessJobsCall(qa_jobs)

\* process_jobs([]) by a layer that has processed a list with listings: the
\* early return of process_jobs, which leaves qa_stats and the deduplicator's
\* statistics as the run before left them.
ProcessJobsEmpty ==
    /\ qa_runs > 0
    /\ qa_jobs # <<>>
    /\ qa_runs < MaxQaRuns
    /\ qa_jobs' = <<>>
    /\ qa_validated' = <<>>
    /\ qa_deduplication' = None
    /\ qa_enriched' = Some(<<>>)
    /\ qa_runs' = qa_runs + 1
    /\ raised' = "none"
    /\ last_call' = "process_jobs"
    /\ UNCHANGED <<qa_stats, qa_deduplication_stats, routerVars, deduplicatorVars,
                   validatorVars, qa_level, searchVars, threadVars, limiterVars>>

LayerNext ==
    \/ \E jobs \in QaLists : ProcessJobs(jobs)
    \/ ProcessJobsAgain
    \/ ProcessJobsEmpty

(***************************************************************************)
(* The web search as a state machine. The calls of the parallel wave run   *)
(* on the executor's threads while search waits in as_completed.           *)
(***************************************************************************)
\* The results an engine finds for the query of the model: the first two under
\* one url but for its case and a trailing slash.
EngineResults ==
    [engine \in SearchEngines |->
        CASE engine = "duckduckgo" ->
                 <<[url |-> <<"h", "/", "a">>, title_matches |-> 1,
                    snippet_matches |-> 1, rank |-> 1, engine |-> engine]>>
          [] engine = "bing" ->
                 <<[url |-> <<"H", "/", "a", "/">>, title_matches |-> 1,
                    snippet_matches |-> 0, rank |-> 1, engine |-> engine]>>
          [] engine = "google" ->
                 <<[url |-> <<"h", "/", "b">>, title_matches |-> 1,
                    snippet_matches |-> 1, rank |-> 2, engine |-> engine]>>
          [] OTHER -> <<>>]

\* How a call of adapter.search can end: the request raised, or was answered
\* with nothing to parse, or with results.
EngineOutcomes == {"failed", "empty", "found"}

\* The engines arguments of search; None stands for the default.
EnginesInputs ==
    {None, Some(<<>>), Some(<<"duckduckgo">>), Some(<<"bing", "google">>),
     Some(<<"yahoo">>), Some(<<"google", "bing", "duckduckgo">>)}

NumResultsInputs == {1, 10}

\* _search_single_engine(engine, ...) ending with an outcome: what it returns.
SearchSingleEngine(engine, outcome) ==
    IF engine \in adapters /\ outcome = "found" THEN EngineResults[engine] ELSE <<>>

\* failure_counts after _search_single_engine(engine, ...) ended with an outcome.
CountsAfter(counts, engine, outcome) ==
    IF engine \in adapters THEN RecordEngineRequest(counts, engine, outcome)
    ELSE counts

\* search(query, n, engines) up to the submission of the parallel wave.
Search(engines_arg, n) ==
    /\ search_pc = "idle"
    /\ LET engines == IF engines_arg = None THEN engine_priority ELSE engines_arg[1]
       IN  /\ future_to_engine' =
                  [k \in 1..Len(engines) |->
                      [engine |-> engines[k], done |-> FALSE, results |-> <<>>]]
           /\ remaining_engines' =
                  SelectSeq(engine_priority, LAMBDA e : e \notin Range(engines))
    /\ num_results' = n
    /\ search_pc' = "parallel"
    /\ raised' = "none"
    /\ last_call' = "search"
    /\ UNCHANGED <<routerVars, deduplicatorVars, validatorVars, qaVars, threadVars, limiterVars, yielded,
                   all_results, successful_engines, fallback_engines, search_result,
                   failure_counts>>

\* A call of the parallel wave ends on its thread, whether search still waits
\* for it or is leaving the executor's with block.
EngineCompletes(k, outcome) ==
    /\ search_pc \in {"parallel", "unwinding"}
    /\ k \in Running(future_to_engine)
    /\ future_to_engine' =
           [future_to_engine EXCEPT
               ![k].done = TRUE,
               ![k].results = SearchSingleEngine(future_to_engine[k].engine, outcome)]
    /\ failure_counts' = CountsAfter(failure_counts, future_to_engine[k].engine, outcome)
    /\ UNCHANGED <<routerVars, deduplicatorVars, validatorVars, qaVars, threadVars, limiterVars, search_pc,
                   num_results, yielded, all_results, successful_engines,
                   remaining_engines, fallback_engines, search_result, raised,
                   last_call>>

\* as_completed hands a finished future to the loop, whose body gathers its
\* results.
CollectFuture(k) ==
    /\ search_pc = "parallel"
    /\ k \in 1..Len(future_to_engine)
    /\ future_to_engine[k].done
    /\ k \notin yielded
    /\ yielded' = yielded \cup {k}
    /\ IF future_to_engine[k].results # <<>>
       THEN /\ all_results' = all_results \o future_to_engine[k].results
            /\ successful_engines' =
                   Append(successful_engines, future_to_engine[k].engine)
       ELSE UNCHANGED <<all_results, successful_engines>>
    /\ UNCHANGED <<routerVars, deduplicatorVars, validatorVars, qaVars, threadVars, limiterVars, search_pc,
                   num_results, future_to_engine, remaining_engines, fallback_engines,
                   search_result, failure_counts, raised, last_call>>

\* The 60 seconds of as_completed pass while a future is not done: the iterator
\* raises TimeoutError, outside the try of the loop's body, and search leaves
\* the with block, whose exit waits for the calls still to end.
FanOutTimeout ==
    /\ search_pc = "parallel"
    /\ \E k \in 1..Len(future_to_engine) : ~future_to_engine[k].done
    /\ search_pc' = "unwinding"
    /\ UNCHANGED <<routerVars, deduplicatorVars, validatorVars, qaVars, threadVars, limiterVars, num_results,
                   future_to_engine, yielded, all_results, successful_engines,
                   remaining_engines, fallback_engines, search_result, failure_counts,
                   raised, last_call>>

\* executor.shutdown(wait=True) returns once every call has ended, and the
\* TimeoutError reaches the caller of search.
TimeoutPropagates ==
    /\ search_pc = "unwinding"
    /\ \A k \in 1..Len(future_to_engine) : future_to_engine[k].done
    /\ search_pc' = "raised"
    /\ raised' = "TimeoutError"
    /\ UNCHANGED <<routerVars, deduplicatorVars, validatorVars, qaVars, threadVars, limiterVars, num_results,
                   future_to_engine, yielded, all_results, successful_engines,
                   remaining_engines, fallback_engines, search_result, failure_counts,
                   last_call>>

\* A fallback that is turned to whatever the parallel wave gathered.
FallbackActivatedAlways(results) == fallback_enabled

\* if not all_results and self.fallback_enabled.
FallbackActivated(results) == results = <<>> /\ fallback_enabled

\* The loop over as_completed ends, every future handed over: search returns
\* what it gathered or, with nothing gathered, turns to the fallback.
ParallelWaveEnds ==
    /\ search_pc = "parallel"
    /\ yielded = 1..Len(future_to_engine)
    /\ IF FallbackActivated(all_results)
       THEN /\ search_pc' = "fallback"
            /\ UNCHANGED search_result
       ELSE /\ search_pc' = "returned"
            /\ search_result' = Some(SearchReturns(all_results, num_results))
    /\ UNCHANGED <<routerVars, deduplicatorVars, validatorVars, qaVars, threadVars, limiterVars, num_results,
                   future_to_engine, yielded, all_results, successful_engines,
                   remaining_engines, fallback_engines, failure_counts, raised,
                   last_call>>

\* One turn of the fallback loop, or its end: the next remaining engine is
\* called on the caller's thread, and search returns at the first results or
\* when no engine remains.
FallbackStep(outcome) ==
    /\ search_pc = "fallback"
    /\ IF remaining_engines = <<>>
       THEN /\ search_pc' = "returned"
            /\ search_result' = Some(SearchReturns(all_results, num_results))
            /\ UNCHANGED <<all_results, successful_engines, remaining_engines,
                           fallback_engines, failure_counts>>
       ELSE LET engine == Head(remaining_engines)
                results == SearchSingleEngine(engine, outcome)
            IN  /\ fallback_engines' = Append(fallback_engines, engine)
                /\ failure_counts' = CountsAfter(failure_counts, engine, outcome)
                /\ remaining_engines' = Tail(remaining_engines)
                /\ IF results # <<>>
                   THEN /\ all_results' = all_results \o results
                        /\ successful_engines' = Append(successful_engines, engine)
                        /\ search_pc' = "returned"
                        /\ search_result' =
                               Some(SearchReturns(all_results \o results, num_results))
                   ELSE UNCHANGED <<all_results, successful_engines, search_pc,
                                    search_result>>
    /\ UNCHANGED <<routerVars, deduplicatorVars, validatorVars, qaVars, threadVars, limiterVars, num_results,
                   future_to_engine, yielded, raised, last_call>>

\* A new AdvancedWebSearchEngine, and nothing else in use.
SearchInit ==
    /\ RouterIdle
    /\ DeduplicatorIdle
    /\ ValidatorIdle
    /\ QaIdle
    /\ SearchIdle
    /\ ThreadsIdle
    /\ LimiterIdle
    /\ raised = "none"
    /\ last_call = "init"

SearchNext ==
    \/ \E engines_arg \in EnginesInputs, n \in NumResultsInputs : Search(engines_arg, n)
    \/ \E k \in 1..Len(future_to_engine), outcome \in EngineOutcomes :
           EngineCompletes(k, outcome)
    \/ \E k \in 1..Len(future_to_engine) : CollectFuture(k)
    \/ FanOutTimeout
    \/ TimeoutPropagates
    \/ ParallelWaveEnds
    \/ \E outcome \in EngineOutcomes : FallbackStep(outcome)

(***************************************************************************)
(* The rate limiter as a state machine: requests of one adapter after      *)
(* another, the clock advanced by the waits.                               *)
(***************************************************************************)
\* The engines requests are made to in the model.
LimiterEngines == {"duckduckgo", "bing"}

\* A new RateLimiter, and nothing else in use.
LimiterInit ==
    /\ RouterIdle
    /\ DeduplicatorIdle
    /\ ValidatorIdle
    /\ LaterIdle
    /\ raised = "none"
    /\ last_call = "init"

\* SearchEngineAdapter._make_request(url, engine): wait_if_needed sleeps for
\* should_wait(engine), the request is made and record_request stores its time
\* and its outcome.
MakeRequest(engine, jitter, outcome) ==
    /\ limiter_requests < MaxLimiterRequests
    /\ \E wait \in {ShouldWait(request_times, failure_counts, engine, current_time,
                              jitter)} :
          /\ wait_time' = Some(wait)
          /\ current_time' = current_time + wait
          /\ request_times' = [request_times EXCEPT ![engine] = current_time + wait]
    /\ failure_counts' = RecordEngineRequest(failure_counts, engine, outcome)
    /\ limiter_engine' = Some(engine)
    /\ limiter_requests' = limiter_requests + 1
    /\ last_call' = "_make_request"
    /\ UNCHANGED <<routerVars, deduplicatorVars, validatorVars, qaVars, threadVars,
                   search_pc, num_results, future_to_engine, yielded, all_results,
                   successful_engines, remaining_engines, fallback_engines,
                   search_result, raised>>

LimiterNext ==
    \E engine \in LimiterEngines, jitter \in JitterDraws, outcome \in {"failed", "found"} :
        MakeRequest(engine, jitter, outcome)

(***************************************************************************)
(* Threads in PerformanceTracker.record_request at the same time.          *)
(***************************************************************************)
Threads == 1..MaxThreads

\* The calls the threads make, each on a source of its own choice.
ThreadsInit ==
    /\ RouterIdle
    /\ DeduplicatorIdle
    /\ ValidatorIdle
    /\ QaIdle
    /\ SearchIdle
    /\ LimiterIdle
    /\ thread_call \in [Threads -> [source_id : RecordIds, outcome : OutcomeInputs]]
    /\ thread_pc = [t \in Threads |-> "called"]
    /\ thread_raised = [t \in Threads |-> "none"]
    /\ lock = None
    /\ raised = "none"
    /\ last_call = "init"

\* with self.lock: the thread enters once no thread holds the lock.
AcquireLock(t) ==
    /\ thread_pc[t] = "called"
    /\ lock = None
    /\ lock' = Some(t)
    /\ thread_pc' = [thread_pc EXCEPT ![t] = "locked"]
    /\ UNCHANGED <<routerVars, deduplicatorVars, validatorVars, qaVars, searchVars, limiterVars,
                   thread_call, thread_raised, raised, last_call>>

\* self.performance_history[source_id].append(result).
AppendResult(t) ==
    /\ thread_pc[t] = "locked"
    /\ performance_history' =
           [performance_history EXCEPT
               ![thread_call[t].source_id] =
                   DequeAppend(@, [success |-> thread_call[t].outcome.success,
                                   response_time |-> thread_call[t].outcome.response_time,
                                   jobs_found |-> thread_call[t].outcome.jobs_found])]
    /\ thread_pc' = [thread_pc EXCEPT ![t] = "appended"]
    /\ UNCHANGED <<source_metrics, parsed_data, max_sources, query_type, selected,
                   deduplicatorVars, validatorVars, qaVars, searchVars, limiterVars, thread_call,
                   thread_raised, lock, raised, last_call>>

\* self._update_metrics(source_id) and the end of the with block, which gives
\* the lock back whether _update_metrics returned or raised.
UpdateMetricsAndRelease(t) ==
    /\ thread_pc[t] = "appended"
    /\ LET updated == UpdateMetrics(performance_history, source_metrics,
                                    thread_call[t].source_id)
       IN  /\ source_metrics' = updated.metrics
           /\ thread_raised' = [thread_raised EXCEPT ![t] = updated.raised]
    /\ lock' = None
    /\ thread_pc' = [thread_pc EXCEPT ![t] = "done"]
    /\ last_call' = "record_request"
    /\ UNCHANGED <<performance_history, parsed_data, max_sources, query_type, selected,
                   deduplicatorVars, validatorVars, qaVars, searchVars, limiterVars, thread_call,
                   raised>>

ThreadsNext ==
    \E t \in Threads : AcquireLock(t) \/ AppendResult(t) \/ UpdateMetricsAndRelease(t)

vars == <<routerVars, deduplicatorVars, validatorVars, laterVars, raised, last_call>>

\* The router: outcomes reported through record_source_result, and selections.
SpecRouter == RouterInit /\ [][RouterNext]_vars

\* The query classifier on every parsed query of the model.
SpecClassify == ClassifyInit /\ [][ClassifyNext]_vars

\* A performance tracker on its own.
SpecTracker == RouterInit /\ [][TrackerNext]_vars

\* A deduplicator on every list of the model, and again on what it returned.
SpecDedup == QaInit /\ [][DedupNext]_vars

\* A validator on every listing of the model, and on the listing filled in.
SpecValidate == QaInit /\ [][ValidateNext]_vars

\* A quality assurance layer on every list of the model, and again on the same list.
SpecQa == LayerInit /\ [][LayerNext]_vars

\* One search of a new web search engine.
SpecSearch == SearchInit /\ [][SearchNext]_vars

\* Requests through one rate limiter.
SpecLimiter == LimiterInit /\ [][LimiterNext]_vars

\* Threads recording outcomes with one tracker at the same time.
SpecThreads == ThreadsInit /\ [][ThreadsNext]_vars

(***************************************************************************)
(* Properties of the tracker, the classifier and the router.               *)
(***************************************************************************)
\* The circuit breaker's condition on a window: at least 5 failures and a
\* success rate below 0.2.
Tripped(window) ==
    /\ Len(window) - Successes(window) >= 5
    /\ 10 * Successes(window) < 2 * Len(window)

\* The window's success rate is at most 0.3.
RateAtMostThreeTenths(window) == 10 * Successes(window) <= 3 * Len(window)

\* The last call was a select_sources call on a company query.
CompanySelection ==
    /\ last_call = "select_sources"
    /\ Truthy(parsed_data[1].company, "")

\* The enabled catalog sources no metrics record says unavailable.
Eligible ==
    {s \in CatalogIds :
        /\ available_sources[s].enabled
        /\ \/ GetSourceMetrics(source_metrics, s) = None
           \/ GetSourceMetrics(source_metrics, s)[1].is_available}

\* C3: after any sequence of record_request calls, every source with recorded
\* outcomes whose success rate is at most 0.3, or that has at least 5 failures
\* and a rate below 0.2 (5 failures and 1 success, say), has a metrics record,
\* and that record says unavailable.
C3_LowRateIsUnavailable ==
    \A s \in TrackedIds :
        LET window == performance_history[s]
        IN  (window # <<>> /\ (RateAtMostThreeTenths(window) \/ Tripped(window)))
            => /\ GetSourceMetrics(source_metrics, s) # None
               /\ ~GetSourceMetrics(source_metrics, s)[1].is_available

\* C4: a source whose reported outcomes hold at least 5 failures with a success
\* rate below 0.2 is in no list select_sources returns afterwards.
C4_TrippedSourceOmitted ==
    (last_call = "select_sources" /\ selected # None)
    => \A s \in Range(selected[1]) : ~Tripped(performance_history[s])

\* C5: record_request returns normally, stores no negative response time, and
\* leaves a metrics record, computed from the window, for the source.
C5_RecordRequestReturns ==
    last_call = "record_request"
    => /\ raised = "none"
       /\ \A s \in TrackedIds :
            LET window == performance_history[s]
            IN  window # <<>>
                => /\ \A i \in 1..Len(window) : window[i].response_time >= 0
                   /\ GetSourceMetrics(source_metrics, s) # None
                   /\ GetSourceMetrics(source_metrics, s)[1].total_requests
                        = Len(window)

\* The conditions of the classification, in the order of their precedence.
PrecedenceConditions(pd) ==
    <<Truthy(pd.company, ""),
      Truthy(pd.skills, <<>>),
      Truthy(pd.location, "") /\ LowerStr(pd.location[1]) # "bangladesh",
      Truthy(pd.remote, FALSE),
      Truthy(pd.salary_range, ""),
      Truthy(pd.experience_level, ""),
      pd.job_type = Some("recent")>>

PrecedenceTypes ==
    <<"company_specific", "skill_based", "location_specific", "remote_work",
      "salary_range", "experience_level", "recent_postings">>

\* The type of the first condition that holds, the general type when none does.
FirstByPrecedence(pd) ==
    LET holds == {k \in 1..7 : PrecedenceConditions(pd)[k]}
    IN  IF holds = {} THEN "general_job_search"
        ELSE PrecedenceTypes[CHOOSE k \in holds : \A j \in holds : k <= j]

\* C6: classify_query returns the type of the first condition that holds in the
\* order company, skills, location other than the country-wide default, remote,
\* salary, experience, recency, and the general type when none holds; the parsed
\* query is the same after the call.
C6_ClassifyByPrecedence ==
    /\ [](last_call = "classify_query"
            => query_type = Some(FirstByPrecedence(parsed_data[1])))
    /\ [][parsed_data' = parsed_data]_vars

\* A classified query of which the location, remote flag and salary conditions
\* hold and the company and skills are present but empty.
C6_LocationBeforeRemote ==
    /\ last_call = "classify_query"
    /\ parsed_data[1].company = Some("")
    /\ parsed_data[1].skills = Some(<<>>)
    /\ parsed_data[1].location = Some("Dhaka")
    /\ parsed_data[1].remote = Some(TRUE)
    /\ parsed_data[1].salary_range = Some("above 50k")
    /\ query_type = Some("location_specific")

\* C7 as stated: for a query that names a company select_sources returns a
\* non-empty list in the order of the company profile's preferred_sources, a
\* source the profile does not list behind the ones it lists.
C7_PreferredSourcesOrder ==
    CompanySelection
    => /\ selected # None /\ selected[1] # <<>>
       /\ \A i, j \in 1..Len(selected[1]) :
            i < j => IndexOf(query_profiles.company_specific.preferred_sources,
                             selected[1][i])
                     <= IndexOf(query_profiles.company_specific.preferred_sources,
                                selected[1][j])

\* C7: for a query that names a company select_sources returns a non-empty list
\* in descending order of the ranking value (base priority + performance boost +
\* query-type boost); the order of the company profile's preferred_sources
\* decides only between sources of equal ranking value.
C7_RankingOrder ==
    CompanySelection
    => /\ selected # None /\ selected[1] # <<>>
       /\ \A i, j \in 1..Len(selected[1]) :
            LET a == RankKey(selected[1][i], "company_specific", source_metrics)
                b == RankKey(selected[1][j], "company_specific", source_metrics)
            IN  i < j =>
                /\ ~KeyGreater(b, a)
                /\ ~KeyGreater(a, b)
                   => IndexOf(query_profiles.company_specific.preferred_sources,
                              selected[1][i])
                      <= IndexOf(query_profiles.company_specific.preferred_sources,
                                 selected[1][j])

\* A company query answered with the LinkedIn API, the Indeed API, BDJobs: the
\* profile prefers BDJobs to both.
C7_ApisBeforeBdjobs ==
    /\ CompanySelection
    /\ selected = Some(<<"api_linkedin", "api_indeed", "scraper_bdjobs">>)

\* C8: every id select_sources returns is an enabled catalog source that no
\* metrics record says unavailable; sources without a record count as available,
\* so the list has at least two ids when two enabled sources have no record.
C8_SelectedAreAvailable ==
    (last_call = "select_sources" /\ selected # None)
    => /\ Range(selected[1]) \subseteq Eligible
       /\ Cardinality({s \in CatalogIds :
                          /\ available_sources[s].enabled
                          /\ GetSourceMetrics(source_metrics, s) = None}) >= 2
          => Len(selected[1]) >= 2

\* A selection that holds a source with recorded outcomes and no metrics record.
C8_SelectedWithoutRecord ==
    /\ last_call = "select_sources"
    /\ selected # None
    /\ \E s \in Range(selected[1]) :
          /\ performance_history[s] # <<>>
          /\ GetSourceMetrics(source_metrics, s) = None

Deduplicated == last_call \in {"deduplicate_jobs", "deduplicate_again"}

\* The indices of the list handed to the last deduplicate_jobs call.
HandedIndices == 0..(Len(handed_jobs) - 1)

\* The number of groups of the last result that hold the index i.
GroupsHolding(i) ==
    Cardinality({g \in 1..Len(deduplication[1].duplicate_groups) :
                    i \in Range(deduplication[1].duplicate_groups[g])})

\* C1 as stated: the groups deduplicate_jobs returns partition the input, every
\* index in exactly one group, a listing that matched nothing in a group of its
\* own, so that there are as many groups as unique listings.
C1_GroupsPartitionInput ==
    Deduplicated
    => /\ \A i \in HandedIndices : GroupsHolding(i) = 1
       /\ Len(deduplication[1].duplicate_groups) = Len(deduplication[1].unique_jobs)

\* C1: the groups deduplicate_jobs returns are lists of at least two indices of
\* the input, none holding an index twice, and no index is in two groups; a
\* listing that matched nothing is in no group, and there are as many unique
\* listings as groups and indices in no group together.
C1_GroupsAreDisjoint ==
    Deduplicated
    => LET groups == deduplication[1].duplicate_groups
       IN  /\ \A g \in 1..Len(groups) :
                 /\ Len(groups[g]) >= 2
                 /\ Range(groups[g]) \subseteq HandedIndices
                 /\ Cardinality(Range(groups[g])) = Len(groups[g])
           /\ \A i \in HandedIndices : GroupsHolding(i) <= 1
           /\ Len(deduplication[1].unique_jobs)
                = Len(groups) + Cardinality({i \in HandedIndices : GroupsHolding(i) = 0})

\* Three listings handed in, two of them grouped and the third in no group.
C1_GroupAndLoneListing ==
    /\ last_call = "deduplicate_jobs"
    /\ Len(handed_jobs) = 3
    /\ Len(deduplication[1].duplicate_groups) = 1
    /\ Len(deduplication[1].duplicate_groups[1]) = 2
    /\ Len(deduplication[1].unique_jobs) = 2

\* C2: deduplicate_jobs on the unique listings a deduplicate_jobs call returned
\* returns the same unique listings and removes no duplicate.
C2_DeduplicationIsIdempotent ==
    last_call = "deduplicate_again"
    => /\ deduplication[1].unique_jobs = previous_deduplication[1].unique_jobs
       /\ deduplication[1].duplicates_removed = 0

\* The scores before and after a required field was filled in.
ScoreBeforeFilling == previous_validation[1].quality_score
ScoreAfterFilling == validation[1].quality_score

\* The spam indicators the filled-in listing matches and the listing before did not.
NewIndicators ==
    MatchedIndicators(handed_job[1])
    \ MatchedIndicators([handed_job[1] EXCEPT ![filled_field[1]] = None])

\* C10 as stated: filling in an absent required field, all else unchanged, never
\* yields a lower validation score, whatever the value and the level.
C10_FillingNeverLowersScore ==
    last_call = "validate_filled" => ScoreAfterFilling >= ScoreBeforeFilling

\* C10: filling in an absent title, company or location never yields a lower
\* validation score, at any level; filling in an absent summary never does when
\* the listing's title and summary match no spam indicator they did not match
\* before.
C10_FillingLowersOnlyBySpam ==
    last_call = "validate_filled"
    => \/ ScoreAfterFilling >= ScoreBeforeFilling
       \/ (filled_field = Some("summary") /\ NewIndicators # {})

\* A listing with a positive score whose absent summary was filled in with one
\* that matches no spam indicator, and whose score rose.
C10_SummaryRaisedScore ==
    /\ last_call = "validate_filled"
    /\ filled_field = Some("summary")
    /\ NewIndicators = {}
    /\ ScoreBeforeFilling > 0
    /\ ScoreAfterFilling > ScoreBeforeFilling

C12_PassedOnIffValidAtLevel ==
    last_call = "process_jobs"
    => \A k \in 1..Len(qa_jobs) :
           (qa_jobs[k] \in Range(qa_validated))
               = ValidateJob(qa_jobs[k], qa_level).is_valid

\* C13: a listing that enrichment returns carries, for its skills, its
\* experience level, its job type and its location, what was found or the
\* sentinel "Not specified": none of the four is left empty.
C13_NothingFoundIsNotSpecified ==
    last_call = "process_jobs" /\ qa_enriched # None
    => \A k \in 1..Len(qa_enriched[1]) :
           /\ qa_enriched[1][k].skills # {}
           /\ qa_enriched[1][k].experience_level # <<>>
           /\ qa_enriched[1][k].job_type # <<>>
           /\ qa_enriched[1][k].location # <<>>

(***************************************************************************)
(* Properties of the web search.                                           *)
(***************************************************************************)
\* C14: the 60 seconds of the parallel wave passing while calls are outstanding
\* never makes search raise: no exception reaches the caller of search, which
\* gets the results gathered so far.
C14_TimeoutNeverPropagates ==
    last_call = "search" => raised = "none" /\ search_pc # "raised"

(***************************************************************************)
(* Further properties of the tracker and the router.                       *)
(***************************************************************************)
\* C15: an outcome reported to the router for an id the catalog does not hold
\* is refused with an error, and the tracker keeps no window and no metrics for
\* that id.
C15_UnregisteredIdLeavesNoState ==
    /\ performance_history[UnregisteredId] = <<>>
    /\ source_metrics[UnregisteredId] = None

\* The rank key of a source by its base priority and the boost of the query
\* type alone.
StaticKey(s, qt) ==
    [num |-> available_sources[s].priority + GetQueryTypeBoost(s, qt), den |-> 10,
     ulp |-> FloatSumUlp(available_sources[s].priority, GetQueryTypeBoost(s, qt))]

\* C18: a call that changes the tracker changes the window and the metrics of
\* one source only; every other source keeps its metrics, its availability and
\* its rank key; and a source no outcome was ever recorded for is then still
\* available and ranked by its base priority and the boost of the query type
\* alone.
C18_RecordingLeavesOtherSources ==
    [][(performance_history' # performance_history \/ source_metrics' # source_metrics)
       => LET recorded == {b \in TrackedIds :
                              \/ performance_history'[b] # performance_history[b]
                              \/ source_metrics'[b] # source_metrics[b]}
              unreported == {b \in CatalogIds : performance_history'[b] = <<>>}
          IN  /\ Cardinality(recorded) = 1
              /\ Range(GetAvailableSources(source_metrics')) \ recorded
                     = Range(GetAvailableSources(source_metrics)) \ recorded
              /\ unreported \subseteq Range(GetAvailableSources(source_metrics'))
              /\ \A b \in CatalogIds \ recorded, qt \in QueryTypes :
                     RankKey(b, qt, source_metrics') = RankKey(b, qt, source_metrics)
              /\ \A b \in unreported, qt \in QueryTypes :
                     RankKey(b, qt, source_metrics') = StaticKey(b, qt)]_vars

\* A selection made after outcomes were recorded for LinkedIn's API and none
\* for Indeed's.
C18_SelectedBesideRecordedSource ==
    /\ last_call = "select_sources"
    /\ Len(performance_history["api_linkedin"]) >= 2
    /\ performance_history["api_indeed"] = <<>>
    /\ selected # None
    /\ "api_indeed" \in Range(selected[1])

\* C19: every window holds at most history_size outcomes, and a source with a
\* window has metrics computed over exactly that window: its total requests are
\* the window's length, its failures and successes add up to it, and its success
\* rate is the share of the window's successes.
C19_MetricsOverWholeWindow ==
    \A s \in TrackedIds :
        LET window == performance_history[s]
            metrics == GetSourceMetrics(source_metrics, s)
        IN  /\ Len(window) <= history_size
            /\ window # <<>>
               => /\ metrics # None
                  /\ metrics[1].total_requests = Len(window)
                  /\ metrics[1].failure_count + Successes(window) = Len(window)
                  /\ metrics[1].success_rate = <<Successes(window), Len(window)>>

\* C20: select_sources returns min(max_sources, the profile's max_sources, the
\* number of candidates) ids, or the profile's min_sources when that minimum is
\* below min_sources and there are that many candidates; no id twice, each a
\* candidate, and no candidate left out that ranks above a returned one.
C20_CountAndTopRanked ==
    (last_call = "select_sources" /\ selected # None)
    => LET profile == GetQueryProfile(query_type[1]).value[1]
           count == Min(Min(max_sources, profile.max_sources), Cardinality(Eligible))
           num_sources ==
               IF count < profile.min_sources
                  /\ Cardinality(Eligible) >= profile.min_sources
               THEN profile.min_sources ELSE count
       IN  /\ Len(selected[1]) = num_sources
           /\ Cardinality(Range(selected[1])) = Len(selected[1])
           /\ Range(selected[1]) \subseteq Eligible
           /\ \A s \in Range(selected[1]), u \in Eligible \ Range(selected[1]) :
                  ~KeyGreater(RankKey(u, query_type[1], source_metrics),
                              RankKey(s, query_type[1], source_metrics))

\* A selection of more sources than the call allowed, up to the profile's
\* min_sources.
C20_RaisedToMinSources ==
    /\ last_call = "select_sources"
    /\ selected # None
    /\ max_sources = 1
    /\ Len(selected[1]) = GetQueryProfile(query_type[1]).value[1].min_sources
    /\ Len(selected[1]) > 1

\* The outcomes the threads recorded for a source.
RecordedFor(source_id) == {t \in Threads : thread_call[t].source_id = source_id}

\* C16: once every thread's record_request call has ended, the window of every
\* source holds each outcome recorded for it and the source's metrics are the
\* ones computed from that window.
C16_NoUpdateLost ==
    (thread_pc # <<>> /\ \A t \in Threads : thread_pc[t] = "done")
    => \A source_id \in RecordIds :
           LET window == performance_history[source_id]
           IN  /\ Len(window) = Cardinality(RecordedFor(source_id))
               /\ \A t \in RecordedFor(source_id) :
                      \E k \in 1..Len(window) :
                          window[k].success = thread_call[t].outcome.success
               /\ window # <<>>
                  => /\ source_metrics[source_id] # None
                     /\ \A f \in DOMAIN MetricsKwargs(source_id, window) :
                            source_metrics[source_id][1][f]
                                = MetricsKwargs(source_id, window)[f]

(***************************************************************************)
(* Further properties of the deduplicator.                                 *)
(***************************************************************************)
\* Whether the listings of a list all have one title, company and location.
SamePosting(jobs) ==
    \A i, j \in 1..Len(jobs) :
        \A f \in {"title", "company", "location"} : jobs[i][f] = jobs[j][f]

\* C17: of n >= 2 listings with one title, company and location, deduplicate_jobs
\* returns exactly one and reports n - 1 duplicates removed.
C17_SamePostingLeavesOne ==
    (/\ last_call = "deduplicate_jobs"
     /\ Len(handed_jobs) >= 2
     /\ SamePosting(handed_jobs))
    => /\ Len(deduplication[1].unique_jobs) = 1
       /\ deduplication[1].unique_jobs[1] \in Range(handed_jobs)
       /\ deduplication[1].duplicates_removed = Len(handed_jobs) - 1

\* Three listings of one posting, from two sources, deduplicated.
C17_ThreeOfOnePosting ==
    /\ last_call = "deduplicate_jobs"
    /\ Len(handed_jobs) = 3
    /\ SamePosting(handed_jobs)
    /\ Cardinality(Range(handed_jobs)) = 2
    /\ Len(deduplication[1].unique_jobs) = 1

\* The indices of the handed list whose fingerprint no other index has.
InNoExactGroup ==
    {i \in HandedIndices :
        \A h \in HandedIndices \ {i} :
            FingerprintOf(handed_jobs[h + 1]) # FingerprintOf(handed_jobs[i + 1])}

\* C22: any two listings that are in no exact-duplicate group and whose
\* similarity is at least the threshold are in one group of the result, also
\* when one of them was attached to the group of an earlier listing.
C22_SimilarPairsShareGroup ==
    Deduplicated
    => \A i, j \in InNoExactGroup :
           (i < j /\ Similar(handed_jobs[i + 1], handed_jobs[j + 1]))
           => \E g \in 1..Len(deduplication[1].duplicate_groups) :
                  {i, j} \subseteq Range(deduplication[1].duplicate_groups[g])

\* The member of a group with the highest combined score (quality score + 1 / the
\* priority rank of its source), the lowest index of those that share it.
HighestScored(group) ==
    CHOOSE i \in Range(group) :
        \A h \in Range(group) :
            \/ FinalScoreOf(handed_jobs[h + 1]) < FinalScoreOf(handed_jobs[i + 1])
            \/ /\ FinalScoreOf(handed_jobs[h + 1]) = FinalScoreOf(handed_jobs[i + 1])
               /\ i <= h

\* The indices that survive by the rule of C23.
Survivors ==
    {HighestScored(deduplication[1].duplicate_groups[g]) :
        g \in 1..Len(deduplication[1].duplicate_groups)}
    \cup (HandedIndices \ GroupedIndices(deduplication[1].duplicate_groups))

\* C23: of every duplicate group exactly the member with the highest combined
\* score survives, on equal scores the one with the lowest index; every other
\* member of the group is dropped.
C23_HighestScoredSurvives ==
    Deduplicated
    => deduplication[1].unique_jobs
         = [k \in 1..Cardinality(Survivors) |->
               handed_jobs[IndicesIn(Survivors, Len(handed_jobs))[k] + 1]]

\* A group whose second member outscores its first, a third listing in no
\* group: the BDJobs listing survives the web search one.
C23_SecondMemberSurvives ==
    /\ last_call = "deduplicate_jobs"
    /\ handed_jobs = <<WebSearchListing, BdjobsListing, AnalystListing>>
    /\ deduplication[1].duplicate_groups = <<<<0, 1>>>>
    /\ FinalScoreOf(BdjobsListing) > FinalScoreOf(WebSearchListing)
    /\ deduplication[1].unique_jobs = <<BdjobsListing, AnalystListing>>

\* Two members with one combined score, the highest of their group: the one
\* handed in first survives.
C23_FirstOfEqualSurvives ==
    /\ last_call = "deduplicate_jobs"
    /\ handed_jobs = <<WebSearchListing, LinkedInTwin, LinkedInListing>>
    /\ deduplication[1].duplicate_groups = <<<<0, 1, 2>>>>
    /\ FinalScoreOf(LinkedInTwin) = FinalScoreOf(LinkedInListing)
    /\ FinalScoreOf(LinkedInTwin) > FinalScoreOf(WebSearchListing)
    /\ deduplication[1].unique_jobs = <<LinkedInTwin>>

(***************************************************************************)
(* Further properties of the quality assurance layer.                      *)
(***************************************************************************)
\* The steps of the last process_jobs call, each on the listings the step before
\* left: the validated listings are listings of the input, in its order, the
\* unique ones are validated ones and every unique one is returned enriched.
StepsInOrder ==
    qa_jobs # <<>>
    => /\ qa_validated = ValidateJobs(qa_jobs, qa_level)
       /\ Range(qa_deduplication[1].unique_jobs) \subseteq Range(qa_validated)
       /\ Len(qa_deduplication[1].unique_jobs)
            = Len(qa_validated) - qa_deduplication[1].duplicates_removed
       /\ Len(qa_enriched[1]) = Len(qa_deduplication[1].unique_jobs)
       /\ \A k \in 1..Len(qa_enriched[1]) :
              \A f \in {"title", "company", "summary", "url"} :
                  qa_enriched[1][k][f] = qa_deduplication[1].unique_jobs[k][f]

\* The run summary agrees with itself and with the list returned.
SummaryConsistent ==
    /\ qa_stats.total_jobs_processed = qa_stats.valid_jobs + qa_stats.invalid_jobs
    /\ qa_stats.enriched_jobs = Len(qa_enriched[1])
    /\ Len(qa_enriched[1]) = qa_stats.valid_jobs - qa_stats.duplicates_removed

\* C24: after every process_jobs call the steps ran in order, each on what the
\* step before left, the run summary has total processed = valid + invalid and
\* enriched = listings returned = valid - duplicates removed, and an empty input
\* was answered with an empty list.
C24_SummaryConsistentAfterEveryRun ==
    last_call = "process_jobs"
    => /\ StepsInOrder
       /\ SummaryConsistent
       /\ qa_jobs = <<>> => qa_enriched[1] = <<>>

\* The same for the calls handed at least one listing.
SummaryConsistentAfterListings ==
    (last_call = "process_jobs" /\ qa_jobs # <<>>)
    => StepsInOrder /\ SummaryConsistent

(***************************************************************************)
(* Further properties of the web search.                                   *)
(***************************************************************************)
\* The engines of the parallel wave of the search under way.
WaveEngines == {future_to_engine[k].engine : k \in 1..Len(future_to_engine)}

\* The engines of engine_priority that were not in the parallel wave, in
\* priority order.
NotInWave == SelectSeq(engine_priority, LAMBDA e : e \notin WaveEngines)

\* Whether a call of the parallel wave returned results.
WaveFoundResults ==
    \E k \in 1..Len(future_to_engine) : future_to_engine[k].results # <<>>

\* C25: the fallback calls an engine only after a parallel wave that ended with
\* no results; the engines it calls are the ones that were not in the wave, one
\* after the other in priority order; none but the last it called returned
\* results; and search returns only with results found or those engines used up.
C25_FallbackOnlyAfterEmptyWave ==
    /\ (search_pc = "fallback" \/ fallback_engines # <<>>)
       => /\ ~WaveFoundResults
          /\ yielded = 1..Len(future_to_engine)
    /\ Len(fallback_engines) <= Len(NotInWave)
    /\ fallback_engines = SubSeq(NotInWave, 1, Len(fallback_engines))
    /\ \A k \in 1..(Len(fallback_engines) - 1) :
           fallback_engines[k] \notin Range(successful_engines)
    /\ search_pc = "fallback"
       => Range(fallback_engines) \cap Range(successful_engines) = {}
    /\ search_pc = "returned"
       => \/ WaveFoundResults /\ fallback_engines = <<>>
          \/ /\ ~WaveFoundResults
             /\ fallback_engines # <<>>
             /\ fallback_engines[Len(fallback_engines)] \in Range(successful_engines)
          \/ /\ ~WaveFoundResults
             /\ fallback_engines = NotInWave
             /\ successful_engines = <<>>
             /\ search_result = Some(<<>>)

\* A search of DuckDuckGo alone that found nothing: the fallback called Bing,
\* which found nothing, then Google, which found results, and search returned.
C25_SecondFallbackEngineFound ==
    /\ search_pc = "returned"
    /\ WaveEngines = {"duckduckgo"}
    /\ fallback_engines = <<"bing", "google">>
    /\ successful_engines = <<"google">>
    /\ search_result # None /\ search_result[1] # <<>>

\* A request changes the failure count and the request time of its own engine
\* only, and its wait is within the capped backoff of that engine's failures.
WaitByOwnFailures ==
    \A engine \in SearchEngines :
        \/ limiter_engine' = Some(engine)
        \/ /\ failure_counts'[engine] = failure_counts[engine]
           /\ request_times'[engine] = request_times[engine]

\* C26: the wait put before a request never exceeds the cap of 30 seconds,
\* whatever the failure count and the jitter drawn, and the failures of one
\* source never lengthen the wait of another.
C26_WaitWithinCap ==
    /\ [](wait_time # None => wait_time[1] <= max_delay)
    /\ [][WaitByOwnFailures]_vars

(***************************************************************************)
(* Further properties of the validator.                                    *)
(***************************************************************************)
\* C27: at every level the score validate_job returns is at most 0.4, so a
\* strict or moderate validator reports no listing valid and no listing is
\* graded excellent or good.
C27_ScoreAtMostFourTenths ==
    (last_call \in {"validate_job", "validate_filled"} /\ validation # None)
    => /\ validation[1].quality_score <= 40
       /\ level_of_validator \in {"strict", "moderate"} => ~validation[1].is_valid
       /\ validation[1].quality_level \notin {"excellent", "good"}

\* A complete listing that nothing is held against, at the strict level: it
\* scores 0.4, is graded fair and is reported invalid.
C27_BestListingInvalidWhenStrict ==
    /\ last_call = "validate_job"
    /\ level_of_validator = "strict"
    /\ \A f \in Range(required_fields) : HasText(handed_job[1], f)
    /\ validation # None
    /\ validation[1].quality_score = 40
    /\ validation[1].quality_level = "fair"
    /\ ~validation[1].is_valid

\* Whether a listing of the input has the four required fields.
HasRequiredFields(job) == \A f \in Range(required_fields) : HasText(job, f)

\* C28: every listing process_jobs lets through validation, and so every listing
\* it returns, has a title, a company, a location and a summary in the input; a
\* listing without one of them scores below 0.3 and is dropped, whatever else it
\* holds.
C28_PassedOnHaveRequiredFields ==
    (last_call = "process_jobs" /\ qa_jobs # <<>>)
    => /\ \A k \in 1..Len(qa_validated) : HasRequiredFields(qa_validated[k])
       /\ \A k \in 1..Len(qa_jobs) :
              ~HasRequiredFields(qa_jobs[k])
              => /\ ValidationOf(qa_jobs[k], qa_level).quality_score < 30
                 /\ qa_jobs[k] \notin Range(qa_validated)
       /\ \A k \in 1..Len(qa_enriched[1]) :
              \E j \in 1..Len(qa_validated) :
                  /\ HasRequiredFields(qa_validated[j])
                  /\ \A f \in {"title", "company", "summary"} :
                         qa_enriched[1][k][f] = qa_validated[j][f]

\* A listing without a location handed in with the complete one: only the
\* complete one is let through and returned.
C28_ListingWithoutLocationDropped ==
    /\ last_call = "process_jobs"
    /\ qa_jobs = <<[BdjobsListing EXCEPT !.location = None], BdjobsListing>>
    /\ qa_validated = <<BdjobsListing>>
    /\ Len(qa_enriched[1]) = 1

(***************************************************************************)
(* Further properties of the router's availability filter.                 *)
(***************************************************************************)
\* The availability flag _update_metrics derives from a source's window: false
\* at a success rate of at most 0.3.
FlagOfWindow(s) == MetricsKwargs(s, performance_history[s]).is_available

OnePerGroup ==
    {chosen \in SUBSET HandedIndices :
        /\ HandedIndices \ GroupedIndices(deduplication[1].duplicate_groups)
             \subseteq chosen
        /\ \A g \in 1..Len(deduplication[1].duplicate_groups) :
               Cardinality(chosen \cap Range(deduplication[1].duplicate_groups[g])) = 1}

\* C30: the unique listings deduplicate_jobs returns are listings of the input,
\* unchanged and in the order of the input: every listing that is in no group
\* and exactly one of every group; and duplicates_removed is the length of the
\* input less the number of unique listings.
C30_UniqueIsSubsequence ==
    Deduplicated
    => /\ \E chosen \in OnePerGroup :
              deduplication[1].unique_jobs
                = [k \in 1..Cardinality(chosen) |->
                      handed_jobs[IndicesIn(chosen, Len(handed_jobs))[k] + 1]]
       /\ deduplication[1].duplicates_removed
            = Len(handed_jobs) - Len(deduplication[1].unique_jobs)

\* A group of the first and the third listing around a listing in no group: the
\* second and the third are returned, in that order.
C30_KeptInInputOrder ==
    /\ last_call = "deduplicate_jobs"
    /\ handed_jobs = <<WebSearchListing, AnalystListing, BdjobsListing>>
    /\ deduplication[1].duplicate_groups = <<<<0, 2>>>>
    /\ deduplication[1].unique_jobs = <<AnalystListing, BdjobsListing>>
    /\ deduplication[1].duplicates_removed = 1

(***************************************************************************)
(* Further properties of the ranking.                                      *)
(***************************************************************************)
\* The preferred_sources of the profile the last select_sources call used.
PreferredOfSelection == GetQueryProfile(query_type[1]).value[1].preferred_sources

\* The list select_sources returned is in descending order of the ranking value.
SelectedDescending ==
    \A i, j \in 1..Len(selected[1]) :
        i < j => ~KeyGreater(RankKey(selected[1][j], query_type[1], source_metrics),
                             RankKey(selected[1][i], query_type[1], source_metrics))

\* The pairs of places of the returned list that hold equal ranking values.
SelectedTies ==
    {p \in (1..Len(selected[1])) \X (1..Len(selected[1])) :
        /\ p[1] < p[2]
        /\ ~KeyGreater(RankKey(selected[1][p[1]], query_type[1], source_metrics),
                       RankKey(selected[1][p[2]], query_type[1], source_metrics))
        /\ ~KeyGreater(RankKey(selected[1][p[2]], query_type[1], source_metrics),
                       RankKey(selected[1][p[1]], query_type[1], source_metrics))}

\* C21 as stated: the sources select_sources returns are in descending order of
\* base priority + 0.3 * priority score + query-type boost, and two of them with
\* an equal ranking value appear in catalog order.
C21_TiesInCatalogOrder ==
    (last_call = "select_sources" /\ selected # None)
    => /\ SelectedDescending
       /\ \A p \in SelectedTies :
            IndexOf(CatalogOrder, selected[1][p[1]])
            < IndexOf(CatalogOrder, selected[1][p[2]])

\* C21: the sources select_sources returns are in descending order of base
\* priority + 0.3 * priority score + query-type boost, and two of them with an
\* equal ranking value appear in the order of the profile's preferred_sources,
\* the sources it does not list last and in catalog order among themselves.
C21_TiesInPreferredOrder ==
    (last_call = "select_sources" /\ selected # None)
    => /\ SelectedDescending
       /\ \A p \in SelectedTies :
            LET a == IndexOf(PreferredOfSelection, selected[1][p[1]])
                b == IndexOf(PreferredOfSelection, selected[1][p[2]])
            IN  \/ a < b
                \/ /\ a = b
                   /\ IndexOf(CatalogOrder, selected[1][p[1]])
                      < IndexOf(CatalogOrder, selected[1][p[2]])

\* A location query answered with BDJobs ahead of the LinkedIn API: both rank at
\* 1.0, the profile lists BDJobs and the catalog lists the LinkedIn API first.
C21_PreferredAheadOfCatalog ==
    /\ last_call = "select_sources"
    /\ query_type = Some("location_specific")
    /\ selected = Some(<<"scraper_bdjobs", "api_linkedin", "api_indeed">>)
    /\ <<1, 2>> \in SelectedTies

====
